---- MODULE Spec2Model ----
(***************************************************************************)
(* Transcode session orchestrator of netv (ffmpeg_session.py and the probe *)
(* cache of ffmpeg_command.py) as a state machine.                         *)
(*                                                                         *)
(* Time is an integer number of seconds.  A session id, a process id and   *)
(* a directory id are positive integers; process id 0 is the _DeadProcess  *)
(* placeholder.  The registry (_transcode_sessions) is a function whose    *)
(* domain is the set of registered ids, together with `order`, the         *)
(* insertion order of the Python dict.                                     *)
(***************************************************************************)
EXTENDS Integers, Sequences, FiniteSets, TLC

VARIABLES
    sessions,     \* _transcode_sessions: session id -> session record
    order,        \* insertion order of _transcode_sessions (sequence of ids)
    urlIndex,     \* _url_to_session: url -> session id
    procs,        \* every process spawned so far: pid -> [state, dir, code]
    dirs,         \* output directories on disk: dir id -> directory content
    now,          \* time.time()
    settings,     \* get_settings(): cache timeouts, probe switch, stream caps
    probeCache,   \* _probe_cache: url -> [time, height]
    seriesCache,  \* _series_probe_cache: series id -> [mru, episodes]
    seriesFile,   \* series_probe_cache.json as last saved
    probeLock,    \* _probe_lock: the thread holding it, or NoThread
    tasks,        \* request coroutines in flight: task id -> record
    nextSid,      \* next fresh session id (uuid4)
    up,           \* the server process is running (FALSE after shutdown)
    last          \* what the last operation did and returned (observation)

regVars   == <<sessions, order, urlIndex>>
diskVars  == <<procs, dirs>>
probeVars == <<probeCache, seriesCache, seriesFile, probeLock>>
vars == <<sessions, order, urlIndex, procs, dirs, now, settings,
          probeCache, seriesCache, seriesFile, probeLock, tasks, nextSid, up, last>>

(***************************************************************************)
(* Bounds of the model.                                                    *)
(***************************************************************************)
MaxSid == 2      \* session ids (fresh starts) per behaviour
MaxTicks == 1    \* clock steps per behaviour
MaxSeg == 2      \* segments a process writes
MaxPid == 2      \* processes spawned per behaviour

(***************************************************************************)
(* Program constants.                                                      *)
(***************************************************************************)
HEARTBEAT_TIMEOUT_SEC == 30
STOP_GRACE_SEC == 5
PLAYLIST_WAIT_TIMEOUT_SEC == 30
PLAYLIST_WAIT_SEEK_TIMEOUT_SEC == 40
MIN_SEGMENT_SIZE_BYTES == 1000
HLS_SEGMENT_DURATION_SEC == 3
PROBE_CACHE_TTL_SEC == 3600
SERIES_PROBE_CACHE_TTL_SEC == 604800
QUICK_FAILURE_THRESHOLD_SEC == 10
RESUME_SEGMENT_WAIT_TIMEOUT_SEC == 5

DeadProcess == 0          \* _DeadProcess(): returncode = -1, never alive
NoAccess == -1            \* the key "last_access" is missing
NoSeries == 0             \* series_id is None

URLs == {"live1", "movie1", "ep1"}
Users == {"alice", "bob"}
Sources == {"src1", "src2"}
TaskIds == {"t1", "t2"}
NoThread == ""            \* _probe_lock is free
TickSteps == {5, 31}

\* content_type of the request for a url, and what start_transcode derives
ContentType(u) == CASE u = "live1" -> "live" [] u = "movie1" -> "movie" [] OTHER -> "series"
IsVodType(ct) == ct \in {"movie", "series"}
SeriesOf(u) == IF ContentType(u) = "series" THEN 1 ELSE NoSeries
EpisodeOf(u) == IF ContentType(u) = "series" THEN 1 ELSE 0

(***************************************************************************)
(* Cache timeout helpers.                                                  *)
(***************************************************************************)
get_vod_cache_timeout(st) == st.vod_transcode_cache_mins * 60
get_live_cache_timeout(st) == st.live_transcode_cache_secs
CacheTimeoutSwapped(st, is_vod) ==
    IF is_vod THEN get_live_cache_timeout(st) ELSE get_vod_cache_timeout(st)
CacheTimeout(st, is_vod) ==
    IF is_vod THEN get_vod_cache_timeout(st) ELSE get_live_cache_timeout(st)

(***************************************************************************)
(* Session validity.  `alive` is _is_process_alive(session["process"]).    *)
(***************************************************************************)
HeartbeatAge(s, t) ==
    t - (IF s.last_access = NoAccess THEN s.started ELSE s.last_access)

is_session_valid_strict(s, alive, t, st) ==
    IF HeartbeatAge(s, t) >= HEARTBEAT_TIMEOUT_SEC THEN FALSE
    ELSE IF alive THEN TRUE
    ELSE IF CacheTimeout(st, s.is_vod) <= 0 THEN FALSE
    ELSE HeartbeatAge(s, t) < CacheTimeout(st, s.is_vod)

is_session_valid_retention_only(s, alive, t, st) ==
    IF alive THEN HeartbeatAge(s, t) <= HEARTBEAT_TIMEOUT_SEC
    ELSE IF CacheTimeout(st, s.is_vod) <= 0 THEN FALSE
    ELSE HeartbeatAge(s, t) < CacheTimeout(st, s.is_vod)

is_session_valid(s, alive, t, st) ==
    IF HeartbeatAge(s, t) > HEARTBEAT_TIMEOUT_SEC THEN FALSE
    ELSE IF alive THEN TRUE
    ELSE IF CacheTimeout(st, s.is_vod) <= 0 THEN FALSE
    ELSE HeartbeatAge(s, t) < CacheTimeout(st, s.is_vod)

(***************************************************************************)
(* Directory content.  A segment file is named by its index; `segs` are    *)
(* the files larger than _MIN_SEGMENT_SIZE_BYTES and `small` the others.   *)
(* The playlist is absent (seq = -1) or a media-sequence number and the    *)
(* list of segment indices it names.  `json` is session.json: <<>> when    *)
(* absent, else a one-element sequence holding the descriptor.             *)
(***************************************************************************)
NoPlaylist == [seq |-> -1, entries |-> <<>>]
EmptyDir(t) == [segs |-> {}, small |-> {}, playlist |-> NoPlaylist,
                json |-> <<>>, mtime |-> t]

\* The pieces of state the synchronous registry code reads and writes.
Reg == [sessions |-> sessions, order |-> order, urlIndex |-> urlIndex,
        procs |-> procs, dirs |-> dirs]

EmptyFn == [x \in {} |-> x]
Restrict(f, S) == [x \in S |-> f[x]]
RemoveKey(f, k) == Restrict(f, DOMAIN f \ {k})
Put(f, k, v) == IF k \in DOMAIN f THEN [f EXCEPT ![k] = v] ELSE (k :> v) @@ f
RemoveFromSeq(q, x) == SelectSeq(q, LAMBDA y : y # x)
SeqSet(q) == {q[i] : i \in 1..Len(q)}

\* _is_process_alive
IsProcessAlive(R, p) == p # DeadProcess /\ R.procs[p].state = "alive"

IsSessionValidIn(R, sid, t, st) ==
    is_session_valid(R.sessions[sid], IsProcessAlive(R, R.sessions[sid].proc), t, st)

\* _kill_process: SIGTERM, then SIGKILL; a process that has exited stays as it is
Ended(proc, state, code) ==
    IF proc.mon = "resume"
    THEN [proc EXCEPT !.state = state, !.code = code, !.next = 0, !.left = 0]
    ELSE [state |-> state, code |-> code, dir |-> proc.dir, next |-> 0, left |-> 0,
          mon |-> "none", msid |-> 0, murl |-> "", mstart |-> 0]
KillProcess(R, p) ==
    IF IsProcessAlive(R, p)
    THEN [R EXCEPT !.procs[p] = Ended(@, "killed", 0)]
    ELSE R

\* shutil.rmtree(dir, ignore_errors=True)
RmTree(R, d) == [R EXCEPT !.dirs = RemoveKey(R.dirs, d)]

\* dict.pop(session_id) and _url_to_session.pop(url, None)
PopSession(R, sid) ==
    [R EXCEPT !.sessions = RemoveKey(R.sessions, sid),
              !.order = RemoveFromSeq(R.order, sid)]
PopUrl(R, u) == [R EXCEPT !.urlIndex = RemoveKey(R.urlIndex, u)]

(***************************************************************************)
(* stop_session(session_id, force)                                         *)
(***************************************************************************)
\* time.time() - session.get("last_access", 0) < 5.0; the clock of the model
\* starts at 0 at a moment at which time.time() is EPOCH_OFFSET
EPOCH_OFFSET == 1000000000
StopGraceAge(s, t) ==
    IF s.last_access = NoAccess THEN t + EPOCH_OFFSET ELSE t - s.last_access
GraceProtectsShort(age) == age < STOP_GRACE_SEC - 1
GraceProtects(age) == age < STOP_GRACE_SEC

StopSession(R, sid, force, t, st) ==
    IF sid \notin DOMAIN R.sessions THEN R
    ELSE LET s == R.sessions[sid] IN
         IF ~force /\ GraceProtects(StopGraceAge(s, t)) THEN R
         ELSE LET R1 == KillProcess(R, s.proc) IN
              IF ~force /\ CacheTimeout(st, s.is_vod) > 0
              THEN [R1 EXCEPT !.sessions[sid].last_access = t]
              ELSE RmTree(PopUrl(PopSession(R1, sid), s.url), s.dir)

RECURSIVE StopAll(_, _, _, _)
StopAll(R, q, t, st) ==
    IF q = <<>> THEN R
    ELSE StopAll(StopSession(R, Head(q), TRUE, t, st), Tail(q), t, st)

\* cleanup_expired_sessions
CleanupExpired(R, t, st) ==
    StopAll(R, SelectSeq(R.order, LAMBDA sid : ~IsSessionValidIn(R, sid, t, st)), t, st)

RECURSIVE KillAll(_, _)
KillAll(R, q) ==
    IF q = <<>> THEN R ELSE KillAll(KillProcess(R, R.sessions[Head(q)].proc), Tail(q))

\* shutdown
ShutdownReg(R) ==
    [KillAll(R, R.order) EXCEPT !.sessions = EmptyFn, !.order = <<>>]

(***************************************************************************)
(* Stream limits.  sorted() is stable: sessions with equal "started" keep  *)
(* the order of the registry.                                              *)
(***************************************************************************)
RECURSIVE InsertByStarted(_, _, _)
InsertByStarted(R, q, sid) ==
    IF q = <<>> THEN <<sid>>
    ELSE IF R.sessions[Head(q)].started <= R.sessions[sid].started
         THEN <<Head(q)>> \o InsertByStarted(R, Tail(q), sid)
         ELSE <<sid>> \o q

RECURSIVE SortByStarted(_, _)
SortByStarted(R, q) ==
    IF q = <<>> THEN <<>>
    ELSE InsertByStarted(R, SortByStarted(R, SubSeq(q, 1, Len(q) - 1)), q[Len(q)])

get_user_sessions(R, username) ==
    SortByStarted(R, SelectSeq(R.order, LAMBDA sid : R.sessions[sid].username = username))

get_source_sessions(R, source_id) ==
    SortByStarted(R, SelectSeq(R.order, LAMBDA sid : R.sessions[sid].source_id = source_id))

PosIn(q, x) == CHOOSE i \in 1..Len(q) : q[i] = x

\* What an eviction is observed as: the victim and the sessions that qualified.
Candidate(R, sid) ==
    [sid |-> sid, started |-> R.sessions[sid].started, pos |-> PosIn(R.order, sid),
     username |-> R.sessions[sid].username]
Eviction(R, kind, victim, qualifying) ==
    [kind |-> kind, victim |-> Candidate(R, victim),
     cands |-> {Candidate(R, sid) : sid \in qualifying}]

NewestOf(q) == q[Len(q)]
OldestOf(q) == q[1]

\* the source limit is reached
SourceAtCapStrict(n, source_max) == source_max > 0 /\ n > source_max
SourceAtCap(n, source_max) == source_max > 0 /\ n >= source_max

\* enforce_stream_limits: [R: the registry afterwards, err: refused, ev: evictions]
enforce_stream_limits(R, username, source_id, user_max, source_max, t, st) ==
    LET source_sessions == get_source_sessions(R, source_id)
        at_source_cap == source_id # "" /\ SourceAtCap(Len(source_sessions), source_max)
        user_source_sessions ==
            SelectSeq(source_sessions, LAMBDA sid : R.sessions[sid].username = username)
    IN  IF at_source_cap /\ user_source_sessions = <<>>
        THEN [R |-> R, err |-> TRUE, ev |-> <<>>]
        ELSE LET v1 == OldestOf(user_source_sessions)
                 R1 == IF at_source_cap THEN StopSession(R, v1, TRUE, t, st) ELSE R
                 ev1 == IF at_source_cap
                        THEN <<Eviction(R, "source", v1,
                                 {sid \in DOMAIN R.sessions :
                                    /\ R.sessions[sid].source_id = source_id
                                    /\ R.sessions[sid].username = username})>>
                        ELSE <<>>
                 user_sessions == get_user_sessions(R1, username)
                 at_user_cap == user_max > 0 /\ Len(user_sessions) >= user_max
                 v2 == OldestOf(user_sessions)
                 R2 == IF at_user_cap THEN StopSession(R1, v2, TRUE, t, st) ELSE R1
                 ev2 == IF at_user_cap
                        THEN <<Eviction(R1, "user", v2,
                                 {sid \in DOMAIN R1.sessions :
                                    R1.sessions[sid].username = username})>>
                        ELSE <<>>
             IN  [R |-> R2, err |-> FALSE, ev |-> ev1 \o ev2]

(***************************************************************************)
(* Probe caches.  A MediaInfo is modelled by its height; NoMedia is None.  *)
(* A cache entry is [time, height].  A series entry is [mru, episodes],    *)
(* mru = NoEpisode when the key is missing or None.                        *)
(***************************************************************************)
NoMedia == -1     \* probe_media returned None
NoEpisode == 0    \* episode_id is None
FFProbeOutcomes == {NoMedia, 0, 720}   \* ffprobe fails, or reports this height

Probe == [probeCache |-> probeCache, seriesCache |-> seriesCache,
          seriesFile |-> seriesFile]

\* _save_series_probe_cache: entries whose media_info is None are left out
SaveSeries(P) ==
    [P EXCEPT !.seriesFile =
        [sr \in DOMAIN P.seriesCache |->
            [mru |-> P.seriesCache[sr].mru,
             episodes |-> Restrict(P.seriesCache[sr].episodes,
                                   {e \in DOMAIN P.seriesCache[sr].episodes :
                                       P.seriesCache[sr].episodes[e].height # NoMedia})]]]

\* _load_series_probe_cache into an empty cache (at process start): entries
\* without a video codec are skipped
LoadSeries(file) ==
    [sr \in DOMAIN file |->
        [mru |-> file[sr].mru,
         episodes |-> Restrict(file[sr].episodes,
                               {e \in DOMAIN file[sr].episodes :
                                   file[sr].episodes[e].height # NoMedia})]]

\* invalidate_series_probe_cache(series_id, episode_id)
invalidate_series_probe_cache(P, series_id, episode_id) ==
    IF series_id \notin DOMAIN P.seriesCache THEN P
    ELSE IF episode_id = NoEpisode
         THEN SaveSeries([P EXCEPT !.seriesCache = RemoveKey(@, series_id)])
         ELSE SaveSeries([P EXCEPT !.seriesCache[series_id].episodes =
                                        RemoveKey(@, episode_id)])

\* the cache write at the end of probe_media
CacheProbeUnchecked(P, url, series_id, episode_id, h, t) ==
    LET P1 == [P EXCEPT !.probeCache = Put(@, url, [time |-> t, height |-> h])]
        eid == episode_id
        old == IF series_id \in DOMAIN P1.seriesCache
               THEN P1.seriesCache[series_id]
               ELSE [mru |-> NoEpisode, episodes |-> EmptyFn]
        new == [mru |-> eid,
                episodes |-> Put(old.episodes, eid, [time |-> t, height |-> h])]
    IN  IF series_id = NoSeries THEN P1
        ELSE SaveSeries([P1 EXCEPT !.seriesCache = Put(@, series_id, new)])

CacheProbe(P, url, series_id, episode_id, h, t) ==
    IF h <= 0 THEN P
    ELSE CacheProbeUnchecked(P, url, series_id, episode_id, h, t)

\* probe_media(url, series_id, episode_id); ff is what ffprobe would report.
\* [P: the caches afterwards, media: the result, invoked: ffprobe was run]
probe_media(P, url, series_id, episode_id, ff, t) ==
    LET has_series == series_id # NoSeries /\ series_id \in DOMAIN P.seriesCache
        sd == P.seriesCache[series_id]
        exact == has_series /\ episode_id # NoEpisode /\ episode_id \in DOMAIN sd.episodes
        exact_fresh == exact /\ t - sd.episodes[episode_id].time < SERIES_PROBE_CACHE_TTL_SEC
        mru_hit == /\ has_series /\ ~exact
                   /\ sd.mru # NoEpisode /\ sd.mru \in DOMAIN sd.episodes
                   /\ t - sd.episodes[sd.mru].time < SERIES_PROBE_CACHE_TTL_SEC
        url_hit == /\ url \in DOMAIN P.probeCache
                   /\ t - P.probeCache[url].time < PROBE_CACHE_TTL_SEC
    IN  IF exact_fresh
        THEN [P |-> IF sd.mru # episode_id
                    THEN SaveSeries([P EXCEPT !.seriesCache[series_id].mru = episode_id])
                    ELSE P,
              media |-> sd.episodes[episode_id].height, invoked |-> FALSE]
        ELSE IF mru_hit
        THEN [P |-> P, media |-> sd.episodes[sd.mru].height, invoked |-> FALSE]
        ELSE IF url_hit
        THEN [P |-> P, media |-> P.probeCache[url].height, invoked |-> FALSE]
        ELSE IF ff = NoMedia
        THEN [P |-> P, media |-> NoMedia, invoked |-> TRUE]
        ELSE [P |-> CacheProbe(P, url, series_id,
                               IF episode_id # NoEpisode THEN episode_id ELSE 0, ff, t),
              media |-> ff, invoked |-> TRUE]

\* restore_probe_cache_entry(url, media_info, subs, series_id, episode_id)
restore_probe_cache_entry(P, url, h, series_id, episode_id, t) ==
    LET P1 == IF url \notin DOMAIN P.probeCache
              THEN [P EXCEPT !.probeCache = Put(@, url, [time |-> t, height |-> h])]
              ELSE P
        eid == IF episode_id # NoEpisode THEN episode_id ELSE 0
        old == IF series_id \in DOMAIN P1.seriesCache
               THEN P1.seriesCache[series_id]
               ELSE [mru |-> NoEpisode, episodes |-> EmptyFn]
        new == IF eid \in DOMAIN old.episodes THEN old
               ELSE [old EXCEPT !.episodes = Put(@, eid, [time |-> t, height |-> h])]
    IN  IF series_id = NoSeries THEN P1
        ELSE [P1 EXCEPT !.seriesCache = Put(@, series_id, new)]

\* A value that is None or a list (session["subtitles"]).
PyNone == [none |-> TRUE, items |-> <<>>]
PyList(q) == [none |-> FALSE, items |-> q]

\* What comes with a probe result besides the height: the duration of the
\* stream, and one text subtitle track when the height is 720.
ProbedDuration == 90
MediaDuration(media) == IF media = NoMedia THEN 0 ELSE ProbedDuration
MediaSubtitles(media) ==
    IF media = 720 THEN <<[index |-> 2, lang |-> "eng", name |-> "English"]>> ELSE <<>>

ApplyProbe(P) ==
    /\ probeCache' = P.probeCache
    /\ seriesCache' = P.seriesCache
    /\ seriesFile' = P.seriesFile
    /\ probeLock' = probeLock

(***************************************************************************)
(* The pipeline planner (ffmpeg_command.py): the argument list of the      *)
(* ffmpeg process.  A command is a sequence of tokens; planning either      *)
(* returns one or raises.                                                   *)
(***************************************************************************)
HwAccels == {"nvenc+vaapi", "nvenc+software", "amf+vaapi", "amf+software",
             "qsv", "vaapi", "software"}
NoDevice == ""                      \* VAAPI_DEVICE when no GPU was detected
RenderNode == "/dev/dri/renderD128"
NoMediaInfo == [none |-> TRUE]      \* media_info is None
UnknownHeight == 9999               \* _MAX_RES_HEIGHT.get(max_resolution, 9999)
Resolutions == {"4k", "1080p", "720p", "480p"}

\* settings.get("transcode_hw", "software"), settings.get("max_resolution", "1080p")
TranscodeHw(st) == IF "transcode_hw" \in DOMAIN st THEN st.transcode_hw ELSE "software"
MaxResolution(st) == IF "max_resolution" \in DOMAIN st THEN st.max_resolution ELSE "1080p"
\* the device cache.py detected when the server was started
VaapiDevice(st) == IF "vaapi_device" \in DOMAIN st THEN st.vaapi_device ELSE NoDevice

\* _parse_hw: 'nvenc+vaapi' -> ('nvenc', 'vaapi'); standalone options fall back
\* to software
parse_hw(hw) ==
    CASE hw = "nvenc+vaapi" -> [enc |-> "nvenc", fallback |-> "vaapi"]
      [] hw = "nvenc+software" -> [enc |-> "nvenc", fallback |-> "software"]
      [] hw = "amf+vaapi" -> [enc |-> "amf", fallback |-> "vaapi"]
      [] hw = "amf+software" -> [enc |-> "amf", fallback |-> "software"]
      [] OTHER -> [enc |-> hw, fallback |-> "software"]

MAX_RES_HEIGHT(max_resolution) ==
    CASE max_resolution = "4k" -> 2160
      [] max_resolution = "1080p" -> 1080
      [] max_resolution = "720p" -> 720
      [] max_resolution = "480p" -> 480
      [] OTHER -> 0                 \* .get() gives None

VAAPI_SAFE_CODECS == {"h264", "hevc", "mpeg2video", "vp8", "vp9", "vc1", "av1"}
QSV_SAFE_CODECS == {"h264", "hevc", "mpeg2video", "vp9", "vc1", "av1"}
GpuNvdecCodecs == {"h264", "hevc"}  \* what _get_gpu_nvdec_codecs() probed

\* "HE" in media_info.audio_profile
HasHE(profile) == profile \in {"HE-AAC", "HE-AACv2"}

\* needs_vaapi in _build_video_args
NeedsVaapiEncoderOnly(hw) == parse_hw(hw).enc = "vaapi"
NeedsVaapi(hw) == parse_hw(hw).enc = "vaapi" \/ parse_hw(hw).fallback = "vaapi"

\* copy_video in build_hls_ffmpeg_cmd
CopyVideoAnyHeight(media_info, max_resolution) ==
    /\ ~media_info.none
    /\ media_info.video_codec = "h264"
    /\ media_info.pix_fmt = "yuv420p"
    /\ ~media_info.interlaced
CopyVideo(media_info, max_resolution) ==
    LET max_h == IF max_resolution \in Resolutions
                 THEN MAX_RES_HEIGHT(max_resolution) ELSE UnknownHeight
    IN  /\ ~media_info.none
        /\ media_info.video_codec = "h264"
        /\ media_info.pix_fmt = "yuv420p"
        /\ ~(media_info.height > max_h)
        /\ ~media_info.interlaced

\* copy_audio in build_hls_ffmpeg_cmd
CopyAudio(media_info) ==
    /\ ~media_info.none
    /\ media_info.audio_codec = "aac"
    /\ media_info.audio_channels <= 2
    /\ media_info.audio_sample_rate \in {44100, 48000}
    /\ ~HasHE(media_info.audio_profile)

\* media_info.is_hdr; False when the probe result does not say
IsHdr(media_info) ==
    IF media_info.none THEN FALSE
    ELSE IF "is_hdr" \in DOMAIN media_info THEN media_info.is_hdr ELSE FALSE

HasLibplacebo == TRUE     \* what _has_libplacebo_filter() probed

\* the scale-down height expression, or "" without a limit
HeightExpr(max_resolution) ==
    IF MAX_RES_HEIGHT(max_resolution) # 0
    THEN "min(ih\\," \o ToString(MAX_RES_HEIGHT(max_resolution)) \o ")"
    ELSE ""

\* tone-mapping on the CPU: zscale, tonemap, zscale
CpuTonemap ==
    <<"zscale=t=linear:npl=100", "format=gbrpf32le", "zscale=p=bt709",
      "tonemap=hable:desat=0", "zscale=t=bt709:m=bt709:r=tv">>
Libplacebo ==
    "libplacebo=tonemapping=hable:colorspace=bt709:color_primaries=bt709:color_trc=bt709"
TonemapVaapi == "tonemap_vaapi=format=nv12:t=bt709:m=bt709:p=bt709"

\* the tone-mapping filters put before the deinterlacer
TonemapThenDeint(deint, tonemap) == tonemap \o deint
\* f"{deint}{tonemap}...": the deinterlacer, then the tone-mapping filters
DeintThenTonemap(deint, tonemap) == deint \o tonemap

\* the -vf filter chain of _build_video_args, filter by filter
FilterChain(hw, deinterlace, use_hw_pipeline, max_resolution, is_hdr, has_libplacebo) ==
    LET enc == parse_hw(hw).enc
        fallback == parse_hw(hw).fallback
        h == HeightExpr(max_resolution)
        when(c, q) == IF c THEN q ELSE <<>>
        scale_cuda == IF h # "" THEN "scale_cuda=-2:" \o h \o ":format=nv12"
                      ELSE "scale_cuda=format=nv12"
        scale_vaapi == IF h # "" THEN "scale_vaapi=w=-2:h=" \o h \o ":format=nv12"
                       ELSE "scale_vaapi=format=nv12"
        scale_qsv == IF h # "" THEN "scale_qsv=w=-2:h=" \o h \o ":format=nv12"
                     ELSE "scale_qsv=format=nv12"
        scale_sw == when(h # "", <<"scale=-2:" \o h>>)
        vaapi_pair == DeintThenTonemap(when(deinterlace, <<"deinterlace_vaapi">>),
                                       when(is_hdr, <<TonemapVaapi>>))
        vpp_qsv == IF deinterlace /\ is_hdr
                   THEN <<"vpp_qsv=deinterlace=2:tonemap=1:format=nv12">>
                   ELSE IF deinterlace THEN <<"vpp_qsv=deinterlace=2">>
                   ELSE IF is_hdr THEN <<"vpp_qsv=tonemap=1:format=nv12">>
                   ELSE <<>>
        gpu_tonemap == IF has_libplacebo THEN <<Libplacebo>> ELSE CpuTonemap
    IN  CASE enc = "nvenc" /\ use_hw_pipeline ->
                 DeintThenTonemap(
                     when(deinterlace, <<"yadif_cuda=0">>),
                     when(is_hdr, <<"hwdownload", "format=p010le">> \o gpu_tonemap
                                  \o <<"format=nv12", "hwupload_cuda">>))
                 \o <<scale_cuda>>
          [] enc = "nvenc" /\ ~use_hw_pipeline /\ fallback = "vaapi" ->
                 vaapi_pair \o <<scale_vaapi, "hwdownload", "format=nv12", "hwupload_cuda">>
          [] enc = "nvenc" /\ ~use_hw_pipeline /\ fallback # "vaapi" ->
                 IF is_hdr
                 THEN DeintThenTonemap(
                          when(deinterlace, <<"yadif=0">>),
                          gpu_tonemap \o <<"format=nv12", "hwupload_cuda">>)
                      \o <<scale_cuda>>
                 ELSE <<"format=nv12", "hwupload_cuda">>
                      \o when(deinterlace, <<"yadif_cuda=0">>) \o <<scale_cuda>>
          [] enc = "amf" /\ fallback = "vaapi" ->
                 vaapi_pair \o <<scale_vaapi, "hwdownload", "format=nv12">>
          [] enc = "amf" /\ fallback # "vaapi" ->
                 DeintThenTonemap(when(deinterlace, <<"yadif=0">>),
                                  when(is_hdr, CpuTonemap \o <<"format=nv12">>))
                 \o scale_sw \o <<"format=nv12">>
          [] enc = "vaapi" /\ use_hw_pipeline -> vaapi_pair \o <<scale_vaapi>>
          [] enc = "vaapi" /\ ~use_hw_pipeline ->
                 <<"format=nv12", "hwupload">> \o vaapi_pair \o <<scale_vaapi>>
          [] enc = "qsv" /\ use_hw_pipeline -> vpp_qsv \o <<scale_qsv>>
          [] enc = "qsv" /\ ~use_hw_pipeline ->
                 <<"format=nv12", "hwupload=extra_hw_frames=64">> \o vpp_qsv
                 \o <<scale_qsv>>
          [] OTHER ->
                 DeintThenTonemap(when(deinterlace, <<"yadif=0">>),
                                  when(is_hdr, CpuTonemap \o <<"format=yuv420p">>))
                 \o scale_sw \o <<"format=yuv420p">>

\* ",".join of the filters
RECURSIVE JoinFilters(_)
JoinFilters(chain) ==
    IF chain = <<>> THEN ""
    ELSE IF Len(chain) = 1 THEN chain[1]
    ELSE chain[1] \o "," \o JoinFilters(Tail(chain))

\* _build_video_args: [raised, pre, post]; the encoder options but -g are
\* left out
build_video_args(copy_video, hw, deinterlace, use_hw_pipeline, max_resolution, vaapi, is_hdr) ==
    LET enc == parse_hw(hw).enc
        fallback == parse_hw(hw).fallback
        vaapi_decode == <<"-hwaccel", "vaapi", "-hwaccel_output_format", "vaapi",
                          "-hwaccel_device", vaapi>>
        pre == CASE enc = "nvenc" /\ use_hw_pipeline ->
                        <<"-hwaccel", "cuda", "-hwaccel_output_format", "cuda",
                          "-extra_hw_frames", "3">>
                 [] enc = "nvenc" /\ ~use_hw_pipeline /\ fallback = "vaapi" -> vaapi_decode
                 [] enc = "amf" /\ fallback = "vaapi" -> vaapi_decode
                 [] enc = "vaapi" /\ use_hw_pipeline ->
                        vaapi_decode \o <<"-extra_hw_frames", "3">>
                 [] enc = "vaapi" /\ ~use_hw_pipeline -> <<"-vaapi_device", vaapi>>
                 [] enc = "qsv" /\ use_hw_pipeline ->
                        <<"-hwaccel", "qsv", "-hwaccel_output_format", "qsv">>
                 [] enc = "qsv" /\ ~use_hw_pipeline ->
                        <<"-init_hw_device", "qsv=hw", "-filter_hw_device", "hw">>
                 [] OTHER -> <<>>
        vf == JoinFilters(FilterChain(hw, deinterlace, use_hw_pipeline, max_resolution,
                                      is_hdr, HasLibplacebo))
        encoder == CASE enc = "nvenc" -> "h264_nvenc"
                     [] enc = "amf" -> "h264_amf"
                     [] enc = "vaapi" -> "h264_vaapi"
                     [] enc = "qsv" -> "h264_qsv"
                     [] OTHER -> "libx264"
    IN  IF copy_video
        THEN [raised |-> FALSE, pre |-> <<>>, post |-> <<"-c:v", "copy">>]
        ELSE IF NeedsVaapi(hw) /\ vaapi = NoDevice
        THEN [raised |-> TRUE, pre |-> <<>>, post |-> <<>>]
        ELSE [raised |-> FALSE, pre |-> pre,
              post |-> <<"-vf", vf, "-c:v", encoder, "-g", "60">>]

\* _build_audio_args
build_audio_args(copy_audio, audio_sample_rate) ==
    IF copy_audio
    THEN <<"-c:a", "copy">>
    ELSE <<"-c:a", "aac", "-ac", "2", "-ar",
           IF audio_sample_rate = 44100 THEN "44100" ELSE "48000">>

\* the hardware set-up repeated among the output options
VideoOutputArgsWithHw(video) == video.pre \o video.post
\* cmd.extend(video_post): the filter and encoder arguments, after the input
VideoOutputArgs(video) == video.post

\* build_hls_ffmpeg_cmd: [raised, cmd]; deinterlace_fallback is "none", "true"
\* or "false"
build_hls_ffmpeg_cmd(input_url, hw, is_vod, media_info, max_resolution, deinterlace_fallback, vaapi) ==
    LET copy_video == CopyVideo(media_info, max_resolution)
        copy_audio == CopyAudio(media_info)
        enc == parse_hw(hw).enc
        codec == IF media_info.none THEN "" ELSE media_info.video_codec
        use_hw_pipeline ==
            /\ ~copy_video
            /\ ~media_info.none
            /\ \/ enc = "nvenc" /\ codec \in GpuNvdecCodecs
               \/ enc = "vaapi" /\ codec \in VAAPI_SAFE_CODECS
               \/ enc = "qsv" /\ codec \in QSV_SAFE_CODECS
        fallback == IF deinterlace_fallback # "none"
                    THEN deinterlace_fallback = "true" ELSE ~is_vod
        deinterlace == IF media_info.none THEN fallback ELSE media_info.interlaced
        video == build_video_args(copy_video, hw, deinterlace, use_hw_pipeline,
                                  max_resolution, vaapi, IsHdr(media_info))
        audio == build_audio_args(copy_audio,
                                  IF media_info.none THEN 0
                                  ELSE media_info.audio_sample_rate)
        probe_args == IF media_info.none
                      THEN <<"-probesize", IF is_vod THEN "50000" ELSE "5000000",
                             "-analyzeduration", IF is_vod THEN "500000" ELSE "5000000">>
                      ELSE <<>>
        hls_demux == IF ~media_info.none /\ media_info.is_hls
                     THEN <<"-f", "hls", "-extension_picky", "0">> ELSE <<>>
        hls_out == IF is_vod
                   THEN <<"-f", "hls", "-hls_list_size", "0", "-hls_flags",
                          "independent_segments", "-hls_playlist_type", "event">>
                   ELSE <<"-f", "hls", "-hls_flags", "delete_segments">>
    IN  IF video.raised
        THEN [raised |-> TRUE, cmd |-> <<>>]
        ELSE [raised |-> FALSE,
              cmd |-> <<"ffmpeg", "-hide_banner", "-noautorotate">> \o video.pre
                      \o probe_args \o <<"-fflags", "+discardcorrupt+genpts">>
                      \o hls_demux \o <<"-i", input_url>>
                      \o <<"-map", "0:v:0", "-map", "0:a:0">>
                      \o VideoOutputArgs(video) \o audio \o hls_out
                      \o <<"stream.m3u8">>]

(***************************************************************************)
(* State after construction, and the small steps of the environment.       *)
(***************************************************************************)
IdleTask == [pc |-> "idle", url |-> "", username |-> "", source_id |-> "",
             existing |-> 0, old_seek |-> 0, sid |-> 0, pid |-> 0, attempt |-> 0,
             t0 |-> 0, media |-> NoMedia, seek_time |-> 0, start_number |-> 0,
             force |-> FALSE, polls |-> 0, dir |-> 0, expired |-> <<>>]

NoOp == [op |-> "none"]

\* The registry part of the next state is R.
Apply(R) ==
    /\ sessions' = R.sessions
    /\ order' = R.order
    /\ urlIndex' = R.urlIndex
    /\ procs' = R.procs
    /\ dirs' = R.dirs

InitCommon ==
    /\ sessions = EmptyFn
    /\ order = <<>>
    /\ urlIndex = EmptyFn
    /\ procs = <<>>
    /\ dirs = EmptyFn
    /\ now = 0
    /\ probeCache = EmptyFn
    /\ seriesCache = EmptyFn
    /\ seriesFile = EmptyFn
    /\ probeLock = NoThread
    /\ tasks = [t \in TaskIds |-> IdleTask]
    /\ nextSid = 1
    /\ up = TRUE
    /\ last = NoOp

\* time passes, by one of TickSteps (a short and a long step; the steps taken
\* so far are read off the clock, 5 * MaxTicks being below 31)
TicksTaken == (now \div 31) + ((now % 31) \div 5)
Tick(d) ==
    /\ TicksTaken < MaxTicks
    /\ now' = now + d
    /\ last' = NoOp
    /\ UNCHANGED <<regVars, diskVars, settings, probeVars, tasks, nextSid, up>>

\* a transcoder process exits on its own (end of input, or an error)
ProcExit(p, code) ==
    /\ up
    /\ p \in 1..Len(procs)
    /\ procs[p].state = "alive"
    /\ procs' = [procs EXCEPT ![p] = Ended(@, "exited", code)]
    /\ last' = NoOp
    /\ UNCHANGED <<regVars, dirs, now, settings, probeVars, tasks, nextSid, up>>

\* a transcoder process completes its next segment and lists it in the playlist
ProcWrite(p) ==
    /\ up
    /\ p \in 1..Len(procs)
    /\ procs[p].state = "alive"
    /\ procs[p].left > 0
    /\ procs[p].dir \in DOMAIN dirs
    /\ LET d == procs[p].dir
           n == procs[p].next
           pl == dirs[d].playlist
       IN  dirs' = [dirs EXCEPT ![d].segs = @ \cup {n},
                                ![d].small = @ \ {n},
                                ![d].playlist =
                                    IF pl.seq = -1 THEN [seq |-> n, entries |-> <<n>>]
                                    ELSE [pl EXCEPT !.entries = Append(@, n)],
                                ![d].mtime = now]
    /\ procs' = [procs EXCEPT ![p].next = @ + 1, ![p].left = @ - 1]
    /\ last' = NoOp
    /\ UNCHANGED <<regVars, now, settings, probeVars, tasks, nextSid, up>>

\* touch_session / get_session_progress: the client's heartbeat
TouchSession(sid) ==
    /\ up
    /\ sid \in DOMAIN sessions
    /\ sessions' = [sessions EXCEPT ![sid].last_access = now]
    /\ last' = NoOp
    /\ UNCHANGED <<order, urlIndex, diskVars, now, settings, probeVars, tasks, nextSid, up>>

\* stop_session called for a client
StopSessionCall(sid, force) ==
    /\ up
    /\ sid \in 1..(nextSid - 1)
    /\ Apply(StopSession(Reg, sid, force, now, settings))
    /\ last' = [op |-> "stop_session", sid |-> sid, force |-> force]
    /\ UNCHANGED <<now, settings, probeVars, tasks, nextSid, up>>

\* cleanup_expired_sessions, run periodically
CleanupExpiredCall ==
    /\ up
    /\ Apply(CleanupExpired(Reg, now, settings))
    /\ last' = [op |-> "cleanup_expired_sessions",
                expired |-> {sid \in DOMAIN sessions :
                                ~IsSessionValidIn(Reg, sid, now, settings)}]
    /\ UNCHANGED <<now, settings, probeVars, tasks, nextSid, up>>

\* shutdown, run when the server stops; the request coroutines end with it
ShutdownCall ==
    /\ up
    /\ Apply(ShutdownReg(Reg))
    /\ up' = FALSE
    /\ tasks' = [t \in TaskIds |-> IdleTask]
    /\ last' = [op |-> "shutdown"]
    /\ UNCHANGED <<now, settings, probeVars, nextSid>>

\* clear_url_session
ClearUrlSession(u) ==
    /\ up
    /\ u \in DOMAIN urlIndex
    /\ Apply(PopUrl(Reg, u))
    /\ last' = [op |-> "clear_url_session", url |-> u]
    /\ UNCHANGED <<now, settings, probeVars, tasks, nextSid, up>>

(***************************************************************************)
(* start_transcode.  The coroutine is cut at its await points: the probe   *)
(* (asyncio.to_thread), the spawn (create_subprocess_exec) and the wait    *)
(* for the playlist; what lies between two awaits is one step.             *)
(***************************************************************************)
NewProcess(d, start, t) ==
    [state |-> "alive", code |-> 0, dir |-> d, next |-> start, left |-> MaxSeg,
     mon |-> "none", msid |-> 0, murl |-> "", mstart |-> 0]

\* _get_existing_session
get_existing_session(R, url, t, st) ==
    IF url \notin DOMAIN R.urlIndex \/ R.urlIndex[url] \notin DOMAIN R.sessions
    THEN [id |-> 0, valid |-> FALSE, seek |-> 0]
    ELSE [id |-> R.urlIndex[url],
          valid |-> IsSessionValidIn(R, R.urlIndex[url], t, st),
          seek |-> R.sessions[R.urlIndex[url]].seek_offset]

\* _get_session_snapshot: the heartbeat it records
Snapshot(R, sid, t) ==
    IF sid \in DOMAIN R.sessions THEN [R EXCEPT !.sessions[sid].last_access = t] ELSE R

\* _cleanup_invalid_session
cleanup_invalid_session_index_only(R, url, sid, t, st) == PopUrl(R, url)
cleanup_invalid_session(R, url, sid, t, st) ==
    StopSession(PopUrl(R, url), sid, TRUE, t, st)

DirFiles(R, d) == IF d \in DOMAIN R.dirs THEN R.dirs[d].segs \cup R.dirs[d].small ELSE {}

\* _calc_hls_duration, every #EXTINF being one segment duration long
calc_hls_duration_estimate(R, d, segment_count) ==
    segment_count * HLS_SEGMENT_DURATION_SEC
calc_hls_duration(R, d, segment_count) ==
    IF d \in DOMAIN R.dirs /\ Len(R.dirs[d].playlist.entries) > 0
    THEN Len(R.dirs[d].playlist.entries) * HLS_SEGMENT_DURATION_SEC
    ELSE segment_count * HLS_SEGMENT_DURATION_SEC

\* Session ids a coroutine may still draw: one per fresh start it can reach.
SidsNeeded(tk) ==
    IF tk.pc = "idle" \/ tk.pc \in {"seek_spawn"} THEN 0
    ELSE (IF tk.pc \in {"resume_spawn", "resume_wait"} THEN 1 ELSE 0)
         + (IF SeriesOf(tk.url) # NoSeries /\ tk.attempt < 2 THEN 1 ELSE 0)
SidsReserved == LET RECURSIVE Sum(_)
                    Sum(S) == IF S = {} THEN 0
                              ELSE LET x == CHOOSE y \in S : TRUE
                                   IN SidsNeeded(tasks[x]) + Sum(S \ {x})
                IN Sum(TaskIds)

SidsAvailable(n) == (nextSid - 1) + SidsReserved + n <= MaxSid
FreshNeeds(url) == 1 + (IF SeriesOf(url) # NoSeries THEN 1 ELSE 0)

\* _do_start_transcode up to its first await: mkdtemp
BeginFresh(R, t, url, username, source_id, old_seek, attempt) ==
    /\ Apply([R EXCEPT !.dirs = Put(@, nextSid, EmptyDir(now))])
    /\ nextSid' = nextSid + 1
    /\ tasks' = [tasks EXCEPT ![t] =
                    [IdleTask EXCEPT !.pc = IF settings.do_probe THEN "probe" ELSE "spawn",
                                     !.url = url, !.username = username,
                                     !.source_id = source_id, !.old_seek = old_seek,
                                     !.sid = nextSid, !.attempt = attempt]]

StartBegin(t, url, username, source_id, user_max, source_max) ==
    /\ up
    /\ tasks[t].pc = "idle"
    /\ LET st == settings
           is_vod == IsVodType(ContentType(url))
           E == IF username # ""
                THEN enforce_stream_limits(Reg, username, source_id,
                                           user_max, source_max, now, st)
                ELSE [R |-> Reg, err |-> FALSE, ev |-> <<>>]
           R0 == E.R
           ex == get_existing_session(R0, url, now, st)
           s == R0.sessions[ex.id]
           snapR == Snapshot(R0, ex.id, now)
           segments == DirFiles(R0, s.dir)
           path == IF ex.id = 0 THEN "fresh"
                   ELSE IF ~ex.valid THEN "replace"
                   ELSE IF ~is_vod THEN "reuse"
                   ELSE IF IsProcessAlive(R0, s.proc) THEN "reuse"
                   ELSE IF segments = {} THEN "no_segments"
                   ELSE IF s.seek_offset > 0 THEN "reuse"
                   ELSE "resume"
           obs == [op |-> "start_transcode", task |-> t, url |-> url,
                   username |-> username, source_id |-> source_id,
                   user_max |-> user_max, source_max |-> source_max, ev |-> E.ev]
       IN  IF E.err
           THEN /\ last' = obs @@ [result |-> "e429", sid |-> 0]
                /\ UNCHANGED <<regVars, diskVars, tasks, nextSid>>
           ELSE CASE path = "reuse" ->
                     /\ Apply(snapR)
                     /\ last' = obs @@ [result |-> "reused", sid |-> ex.id]
                     /\ UNCHANGED <<tasks, nextSid>>
                  [] path = "resume" ->
                     /\ SidsAvailable(FreshNeeds(url))
                     /\ Apply(snapR)
                     /\ tasks' = [tasks EXCEPT ![t] =
                           [IdleTask EXCEPT !.pc = "resume_spawn", !.url = url,
                                !.username = username, !.source_id = source_id,
                                !.existing = ex.id, !.old_seek = ex.seek,
                                !.attempt = 0,
                                !.seek_time = calc_hls_duration(R0, s.dir,
                                                                Cardinality(segments)),
                                !.start_number = Cardinality(segments)]]
                     /\ last' = obs @@ [result |-> "resuming", sid |-> ex.id]
                     /\ UNCHANGED nextSid
                  [] path = "no_segments" ->
                     /\ SidsAvailable(FreshNeeds(url))
                     /\ BeginFresh(cleanup_invalid_session(
                                       PopUrl(StopSession(snapR, ex.id, TRUE, now, st), url),
                                       url, ex.id, now, st),
                                   t, url, username, source_id, ex.seek, 1)
                     /\ last' = obs @@ [result |-> "starting", sid |-> nextSid]
                  [] path = "replace" ->
                     /\ SidsAvailable(FreshNeeds(url))
                     /\ BeginFresh(cleanup_invalid_session(R0, url, ex.id, now, st),
                                   t, url, username, source_id, ex.seek, 1)
                     /\ last' = obs @@ [result |-> "starting", sid |-> nextSid]
                  [] OTHER ->
                     /\ SidsAvailable(FreshNeeds(url))
                     /\ BeginFresh(R0, t, url, username, source_id, ex.seek, 1)
                     /\ last' = obs @@ [result |-> "starting", sid |-> nextSid]
    /\ UNCHANGED <<now, settings, probeVars, up>>

\* await asyncio.to_thread(probe_media, url, series_id, episode_id, series_name)
StartProbe(t, ff) ==
    /\ up
    /\ tasks[t].pc = "probe"
    /\ LET tk == tasks[t]
           pr == probe_media(Probe, tk.url, SeriesOf(tk.url), EpisodeOf(tk.url), ff, now)
       IN  /\ ApplyProbe(pr.P)
           /\ tasks' = [tasks EXCEPT ![t].pc = "spawn", ![t].media = pr.media]
           /\ last' = [op |-> "probe_media", url |-> tk.url, media |-> pr.media,
                       invoked |-> pr.invoked]
    /\ UNCHANGED <<regVars, diskVars, now, settings, nextSid, up>>

\* the session.json _do_start_transcode writes for a VOD session
SessionInfo(sid, s, media) ==
    [session_id |-> sid, url |-> s.url, is_vod |-> TRUE, started |-> s.started,
     subtitles |-> s.subtitles.items, duration |-> s.duration,
     seek_offset |-> s.seek_offset, series_id |-> s.series_id,
     episode_id |-> s.episode_id, username |-> s.username,
     source_id |-> s.source_id, probe |-> media]

\* What ffprobe reports of a stream besides its height is a property of the
\* stream: the movie can be copied, the episode is 10-bit HEVC with 5.1 audio,
\* the live channel is interlaced.
StreamFormat(url) ==
    CASE url = "movie1" ->
             [none |-> FALSE, video_codec |-> "h264", pix_fmt |-> "yuv420p",
              height |-> 0, interlaced |-> FALSE, audio_codec |-> "aac",
              audio_channels |-> 2, audio_sample_rate |-> 48000,
              audio_profile |-> "LC", is_hls |-> FALSE]
      [] url = "ep1" ->
             [none |-> FALSE, video_codec |-> "hevc", pix_fmt |-> "yuv420p10le",
              height |-> 0, interlaced |-> FALSE, audio_codec |-> "ac3",
              audio_channels |-> 6, audio_sample_rate |-> 48000,
              audio_profile |-> "", is_hls |-> FALSE]
      [] OTHER ->
             [none |-> FALSE, video_codec |-> "h264", pix_fmt |-> "yuv420p",
              height |-> 0, interlaced |-> TRUE, audio_codec |-> "aac",
              audio_channels |-> 2, audio_sample_rate |-> 44100,
              audio_profile |-> "HE-AAC", is_hls |-> TRUE]
MediaInfoOf(url, media) ==
    IF media = NoMedia THEN NoMediaInfo ELSE [StreamFormat(url) EXCEPT !.height = media]

\* the command _do_start_transcode plans (deinterlace_fallback defaults to True)
PlanStart(tk, st) ==
    build_hls_ffmpeg_cmd(tk.url, TranscodeHw(st), IsVodType(ContentType(tk.url)),
                         MediaInfoOf(tk.url, tk.media), MaxResolution(st), "true",
                         VaapiDevice(st))

\* build_hls_ffmpeg_cmd raises RuntimeError: it is no HTTPException, so
\* start_transcode does not catch it and the caller gets it; the directory of
\* mkdtemp stays
StartPlanFail(t) ==
    /\ up
    /\ tasks[t].pc = "spawn"
    /\ PlanStart(tasks[t], settings).raised
    /\ tasks' = [tasks EXCEPT ![t] = IdleTask]
    /\ last' = [op |-> "start_config_error", task |-> t, url |-> tasks[t].url,
                sid |-> tasks[t].sid, attempt |-> tasks[t].attempt,
                media |-> tasks[t].media]
    /\ UNCHANGED <<regVars, diskVars, now, settings, probeVars, nextSid, up>>

\* create_subprocess_exec, then the registration under the lock and session.json
StartSpawn(t) ==
    /\ up
    /\ tasks[t].pc = "spawn"
    /\ ~PlanStart(tasks[t], settings).raised
    /\ Len(procs) < MaxPid
    /\ LET tk == tasks[t]
           pid == Len(procs) + 1
           is_vod == IsVodType(ContentType(tk.url))
           s == [dir |-> tk.sid, proc |-> pid, started |-> now, url |-> tk.url,
                 is_vod |-> is_vod, last_access |-> now,
                 subtitles |-> PyList(MediaSubtitles(tk.media)),
                 duration |-> MediaDuration(tk.media), seek_offset |-> tk.old_seek,
                 series_id |-> SeriesOf(tk.url), episode_id |-> EpisodeOf(tk.url),
                 username |-> tk.username, source_id |-> tk.source_id]
       IN  /\ procs' = Append(procs, NewProcess(tk.sid, 0, now))
           /\ sessions' = Put(sessions, tk.sid, s)
           /\ order' = Append(order, tk.sid)
           /\ urlIndex' = Put(urlIndex, tk.url, tk.sid)
           /\ dirs' = IF is_vod /\ tk.sid \in DOMAIN dirs
                      THEN [dirs EXCEPT ![tk.sid].json = <<SessionInfo(tk.sid, s, tk.media)>>,
                                        ![tk.sid].mtime = now]
                      ELSE dirs
           /\ tasks' = [tasks EXCEPT ![t].pc = "wait", ![t].pid = pid, ![t].t0 = now]
           /\ last' = [op |-> "spawn", sid |-> tk.sid, pid |-> pid]
    /\ UNCHANGED <<now, settings, probeVars, nextSid, up>>

\* _wait_for_playlist returns True
PlaylistReady(R, d, p, min_segments) ==
    /\ d \in DOMAIN R.dirs
    /\ R.dirs[d].playlist.seq # -1
    /\ Len(R.dirs[d].playlist.entries) >= min_segments
    /\ Cardinality(DirFiles(R, d)) >= min_segments
    /\ \E first \in R.dirs[d].segs : \A n \in DirFiles(R, d) : first <= n
    /\ IsProcessAlive(R, p)

StartWaitOk(t) ==
    /\ up
    /\ tasks[t].pc = "wait"
    /\ PlaylistReady(Reg, tasks[t].sid, tasks[t].pid, 2)
    /\ tasks' = [tasks EXCEPT ![t] = IdleTask]
    /\ last' = [op |-> "start_done", task |-> t, url |-> tasks[t].url,
                username |-> tasks[t].username, source_id |-> tasks[t].source_id,
                result |-> "ok", sid |-> tasks[t].sid]
    /\ UNCHANGED <<regVars, diskVars, now, settings, probeVars, nextSid, up>>

WaitTimeout(tk) ==
    IF tk.old_seek > 0 THEN PLAYLIST_WAIT_SEEK_TIMEOUT_SEC ELSE PLAYLIST_WAIT_TIMEOUT_SEC

\* the teardown of a failed attempt in _do_start_transcode
TeardownFailedStart(R, sid, t, st) == StopSession(R, sid, FALSE, t, st)

\* the except branch of start_transcode: is the start tried again?
RetryAlways(series_id, attempt) == TRUE
RetryFailedStart(series_id, attempt) == series_id # NoSeries /\ attempt = 1

\* _wait_for_playlist returns False: teardown, HTTPException(500), and the retry
StartWaitFail(t) ==
    /\ up
    /\ tasks[t].pc = "wait"
    /\ \/ ~IsProcessAlive(Reg, tasks[t].pid)
       \/ now - tasks[t].t0 >= WaitTimeout(tasks[t])
    /\ LET tk == tasks[t]
           R1 == TeardownFailedStart(Reg, tk.sid, now, settings)
           retry == RetryFailedStart(SeriesOf(tk.url), tk.attempt)
           obs == [op |-> "start_failed", task |-> t, url |-> tk.url, sid |-> tk.sid,
                   pid |-> tk.pid, attempt |-> tk.attempt, raised |-> ~retry]
       IN  IF retry
           THEN /\ BeginFresh(R1, t, tk.url, tk.username, tk.source_id, tk.old_seek,
                              tk.attempt + 1)
                /\ ApplyProbe(invalidate_series_probe_cache(
                                  Probe, SeriesOf(tk.url), EpisodeOf(tk.url)))
                /\ last' = obs
           ELSE /\ Apply(R1)
                /\ tasks' = [tasks EXCEPT ![t] = IdleTask]
                /\ last' = obs
                /\ UNCHANGED <<probeVars, nextSid>>
    /\ UNCHANGED <<now, settings, up>>

(***************************************************************************)
(* Resume of a dead VOD session (_handle_existing_vod_session, case 4)     *)
(* and its monitor (_monitor_resume_ffmpeg).                               *)
(***************************************************************************)
\* cmd.index(tok), cmd.insert(i, x) and cmd[i] += suffix of the Python list
IndexOf(cmd, tok) == CHOOSE i \in 1..Len(cmd) :
                        cmd[i] = tok /\ \A j \in 1..(i - 1) : cmd[j] # tok
InsertAt(cmd, i, x) == SubSeq(cmd, 1, i - 1) \o <<x>> \o SubSeq(cmd, i, Len(cmd))

\* the command of the resume process: the planned command (no subtitles, no
\* deinterlace fallback) with -ss before -i, +append_list and -start_number.
\* The specifications that resume plan for software, which does not raise.
ResumeCommand(url, st, media, hls_duration, segment_count) ==
    LET cmd == build_hls_ffmpeg_cmd(url, TranscodeHw(st), TRUE, MediaInfoOf(url, media),
                                    MaxResolution(st), "none", VaapiDevice(st)).cmd
        i_idx == IndexOf(cmd, "-i")
        seeked == InsertAt(InsertAt(cmd, i_idx, ToString(hls_duration)), i_idx, "-ss")
        flagged == IF \E i \in 1..Len(seeked) : seeked[i] = "-hls_flags"
                   THEN [seeked EXCEPT ![IndexOf(seeked, "-hls_flags") + 1] =
                                           @ \o "+append_list"]
                   ELSE seeked \o <<"-hls_flags", "append_list">>
    IN  flagged \o <<"-start_number", ToString(segment_count)>>

\* the probe (URL cache only), the spawn and _update_session_process
ResumeSpawn(t, ff) ==
    /\ up
    /\ tasks[t].pc = "resume_spawn"
    /\ Len(procs) < MaxPid
    /\ LET tk == tasks[t]
           pid == Len(procs) + 1
           pr == IF settings.do_probe
                 THEN probe_media(Probe, tk.url, NoSeries, NoEpisode, ff, now)
                 ELSE [P |-> Probe, media |-> NoMedia, invoked |-> FALSE]
           d == IF tk.existing \in DOMAIN sessions THEN sessions[tk.existing].dir
                ELSE tk.existing
           proc == NewProcess(d, tk.start_number, now)
       IN  /\ ApplyProbe(pr.P)
           /\ IF tk.existing \in DOMAIN sessions
              THEN /\ procs' = Append(procs, [proc EXCEPT !.mon = "resume",
                                                !.msid = tk.existing, !.murl = tk.url,
                                                !.mstart = now])
                   /\ sessions' = [sessions EXCEPT ![tk.existing].proc = pid]
                   /\ tasks' = [tasks EXCEPT ![t].pc = "resume_wait", ![t].pid = pid,
                                             ![t].t0 = now]
                   /\ last' = [op |-> "spawn", sid |-> tk.existing, pid |-> pid,
                               cmd |-> ResumeCommand(tk.url, settings, pr.media,
                                                     tk.seek_time, tk.start_number)]
                   /\ UNCHANGED <<order, urlIndex, dirs, nextSid>>
              ELSE \* the session is gone: kill, return None, then the fresh start
                   /\ BeginFresh(cleanup_invalid_session(
                                    [Reg EXCEPT !.procs =
                                        Append(procs, Ended(proc, "killed", 0))],
                                    tk.url, tk.existing, now, settings),
                                 t, tk.url, tk.username, tk.source_id, tk.old_seek, 1)
                   /\ last' = [op |-> "spawn", sid |-> 0, pid |-> pid]
    /\ UNCHANGED <<now, settings, up>>

\* the resume process died while the caller waited for its first segment
ResumeDied(t) ==
    /\ up
    /\ tasks[t].pc = "resume_wait"
    /\ ~IsProcessAlive(Reg, tasks[t].pid)
    /\ LET tk == tasks[t]
       IN  /\ BeginFresh(cleanup_invalid_session(Reg, tk.url, tk.existing, now, settings),
                         t, tk.url, tk.username, tk.source_id, tk.old_seek, 1)
           /\ last' = [op |-> "resume_died", sid |-> tk.existing, pid |-> tk.pid]
    /\ UNCHANGED <<now, settings, probeVars, up>>

\* the next segment appeared, or 5 s passed: the existing session is returned
ResumeDone(t) ==
    /\ up
    /\ tasks[t].pc = "resume_wait"
    /\ IsProcessAlive(Reg, tasks[t].pid)
    /\ \/ tasks[t].start_number \in DirFiles(Reg, procs[tasks[t].pid].dir)
       \/ now - tasks[t].t0 >= RESUME_SEGMENT_WAIT_TIMEOUT_SEC
    /\ tasks' = [tasks EXCEPT ![t] = IdleTask]
    /\ last' = [op |-> "start_done", task |-> t, url |-> tasks[t].url,
                username |-> tasks[t].username, source_id |-> tasks[t].source_id,
                result |-> "reused", sid |-> tasks[t].existing]
    /\ UNCHANGED <<regVars, diskVars, now, settings, probeVars, nextSid, up>>

\* time.time() - start_time < _QUICK_FAILURE_THRESHOLD_SEC
QuickFailureInclusive(elapsed) == elapsed <= QUICK_FAILURE_THRESHOLD_SEC
QuickFailure(elapsed) == elapsed < QUICK_FAILURE_THRESHOLD_SEC

\* _monitor_resume_ffmpeg once the process has exited (a killed process has a
\* non-zero return code)
MonitorResume(p) ==
    /\ up
    /\ p \in 1..Len(procs)
    /\ procs[p].mon = "resume"
    /\ procs[p].state # "alive"
    /\ LET m == procs[p]
           failed == m.state = "killed" \/ m.code # 0
           quick == QuickFailure(now - m.mstart)
           R0 == [Reg EXCEPT !.procs[p] = Ended([@ EXCEPT !.mon = "none"], @.state, @.code)]
           R1 == PopSession(PopUrl(R0, m.murl), m.msid)
       IN  /\ IF failed /\ quick
              THEN Apply(IF m.msid \in DOMAIN sessions
                         THEN RmTree(R1, sessions[m.msid].dir) ELSE R1)
              ELSE Apply(R0)
           /\ last' = [op |-> "monitor_resume", sid |-> m.msid, pid |-> p,
                       teardown |-> failed /\ quick]
    /\ UNCHANGED <<now, settings, probeVars, tasks, nextSid, up>>

(***************************************************************************)
(* seek_transcode                                                          *)
(***************************************************************************)
SeekTimes == {0, 4, 9}

\* int(seek_time / seg_duration)
SegmentNum(seek_time) == seek_time \div HLS_SEGMENT_DURATION_SEC

\* The digits of the name seg%03d.ts of segment k.
RECURSIVE Decimal(_)
Decimal(k) == IF k < 10 THEN <<k>> ELSE Decimal(k \div 10) \o <<k % 10>>
SegStem(k) ==
    LET q == Decimal(k)
    IN  IF Len(q) = 1 THEN <<0, 0>> \o q ELSE IF Len(q) = 2 THEN <<0>> \o q ELSE q
\* Does one file name sort before the other?  Names are compared as strings;
\* the "." that follows the digits sorts before every digit.
RECURSIVE NameBefore(_, _)
NameBefore(a, b) ==
    IF a = <<>> THEN b # <<>>
    ELSE IF b = <<>> THEN FALSE
    ELSE IF a[1] # b[1] THEN a[1] < b[1]
    ELSE NameBefore(Tail(a), Tail(b))

\* sorted(output_dir.glob("seg*.ts")): by file name, seg%03d
RECURSIVE SortedSegs(_)
SortedSegs(S) ==
    IF S = {} THEN <<>>
    ELSE LET m == CHOOSE x \in S :
                     \A y \in S \ {x} : NameBefore(SegStem(x), SegStem(y))
         IN <<m>> \o SortedSegs(S \ {m})

\* The order in which the transcoder wrote the segments into its playlist.
RECURSIVE WrittenOrder(_)
WrittenOrder(S) ==
    IF S = {} THEN <<>>
    ELSE LET m == CHOOSE x \in S : \A y \in S : x <= y
         IN <<m>> \o WrittenOrder(S \ {m})

\* _regenerate_playlist(output_dir, start_segment)
regenerate_playlist(dir, start_segment, t) ==
    LET segments == SortedSegs({n \in dir.segs : n >= start_segment})
    IN  IF segments = <<>> THEN dir
        ELSE [dir EXCEPT !.playlist = [seq |-> start_segment, entries |-> segments],
                         !.mtime = IF dir.playlist.seq = -1 THEN t ELSE @]

\* output_path.glob("sub*.vtt"): the subtitle files extracted so far, by
\* stream index (a directory written without subtitle extraction has none)
SubtitleFiles(dir) == IF "vtt" \in DOMAIN dir THEN dir.vtt ELSE {}

\* the files a restarting seek removes: the playlist, the segments from n on
\* and the subtitle files
ClearForSeekAllSegments(dir, n, t) ==
    LET segs_gone == [dir EXCEPT !.playlist = NoPlaylist, !.segs = {}, !.small = {}]
        kept == IF "vtt" \in DOMAIN dir THEN [segs_gone EXCEPT !.vtt = {}] ELSE segs_gone
    IN  IF kept = dir THEN dir ELSE [kept EXCEPT !.mtime = t]
ClearForSeek(dir, n, t) ==
    LET segs_gone == [dir EXCEPT !.playlist = NoPlaylist,
                                 !.segs = {k \in @ : k < n},
                                 !.small = {k \in @ : k < n}]
        kept == IF "vtt" \in DOMAIN dir THEN [segs_gone EXCEPT !.vtt = {}] ELSE segs_gone
    IN  IF kept = dir THEN dir ELSE [kept EXCEPT !.mtime = t]

\* does seek_transcode take the smart path?
SmartSeekNever(R, d, n) == FALSE
SmartSeekPossible(R, d, n) == d \in DOMAIN R.dirs /\ n \in R.dirs[d].segs

\* seek_transcode up to its first await
SeekBegin(t, sid, seek_time) ==
    /\ up
    /\ tasks[t].pc = "idle"
    /\ sid \in 1..(nextSid - 1)
    /\ LET found == sid \in DOMAIN sessions /\ sessions[sid].is_vod
           s == sessions[sid]
           n == SegmentNum(seek_time)
           obs == [op |-> "seek_transcode", task |-> t, sid |-> sid,
                   seek_time |-> seek_time, segment_num |-> n]
       IN  IF ~found
           THEN /\ last' = obs @@ [result |-> "e404"]
                /\ UNCHANGED <<regVars, diskVars, tasks>>
           ELSE IF SmartSeekPossible(Reg, s.dir, n)
           THEN /\ sessions' = [sessions EXCEPT ![sid].seek_offset = seek_time]
                /\ dirs' = [dirs EXCEPT ![s.dir] = regenerate_playlist(@, n, now)]
                /\ last' = obs @@ [result |-> "smart"]
                /\ UNCHANGED <<order, urlIndex, procs, tasks>>
           ELSE /\ Len(procs) + Cardinality({x \in TaskIds : tasks[x].pc = "seek_spawn"})
                      < MaxPid
                /\ procs' = KillProcess(Reg, s.proc).procs
                /\ dirs' = IF s.dir \in DOMAIN dirs
                           THEN [dirs EXCEPT ![s.dir] = ClearForSeek(@, n, now)]
                           ELSE dirs
                /\ tasks' = [tasks EXCEPT ![t] =
                      [IdleTask EXCEPT !.pc = "seek_spawn", !.url = s.url,
                                       !.existing = sid, !.seek_time = seek_time,
                                       !.start_number = n]]
                /\ last' = obs @@ [result |-> "restarting"]
                /\ UNCHANGED regVars
    /\ UNCHANGED <<now, settings, probeVars, nextSid, up>>

\* str(x) of a float with an integral value
PyFloatStr(x) == IF x < 0 THEN "-" \o ToString(0 - x) \o ".0" ELSE ToString(x) \o ".0"
\* str(-seek_time): the negation of the float 0.0 is -0.0
PyNegFloatStr(x) == IF x = 0 THEN "-0.0" ELSE PyFloatStr(0 - x)

\* the command of a restarting seek: the planned command (is_vod, no
\* deinterlace fallback) with -ss before -i, -output_ts_offset before the
\* first -f, and -start_number
seek_command(url, hw, media_info, max_resolution, vaapi, seek_time, segment_num) ==
    LET plan == build_hls_ffmpeg_cmd(url, hw, TRUE, media_info, max_resolution,
                                     "none", vaapi)
        cmd == plan.cmd
        i_idx == IndexOf(cmd, "-i")
        seeked == InsertAt(InsertAt(cmd, i_idx, PyFloatStr(seek_time)), i_idx, "-ss")
        f_idx == IndexOf(seeked, "-f")
        shifted == InsertAt(InsertAt(seeked, f_idx, PyNegFloatStr(seek_time)),
                            f_idx, "-output_ts_offset")
    IN  IF plan.raised THEN plan
        ELSE [raised |-> FALSE,
              cmd |-> shifted \o <<"-start_number", ToString(segment_num)>>]

\* _update_seek_session: False when the session is gone
update_seek_session_handle_only(R, session_id, url, process, seek_time) ==
    IF session_id \notin DOMAIN R.sessions THEN [ok |-> FALSE, R |-> R]
    ELSE [ok |-> TRUE,
          R |-> [R EXCEPT !.sessions[session_id].proc = process,
                          !.urlIndex = IF url # "" THEN Put(@, url, session_id) ELSE @]]
update_seek_session(R, session_id, url, process, seek_time) ==
    IF session_id \notin DOMAIN R.sessions THEN [ok |-> FALSE, R |-> R]
    ELSE [ok |-> TRUE,
          R |-> [R EXCEPT !.sessions[session_id].proc = process,
                          !.sessions[session_id].seek_offset = seek_time,
                          !.urlIndex = IF url # "" THEN Put(@, url, session_id) ELSE @]]

\* the probe, the spawn, _update_seek_session and the session.json update
SeekSpawn(t, ff) ==
    /\ up
    /\ tasks[t].pc = "seek_spawn"
    /\ LET tk == tasks[t]
           sid == tk.existing
           pid == Len(procs) + 1
           pr == IF settings.do_probe
                 THEN probe_media(Probe, tk.url, SeriesOf(tk.url), EpisodeOf(tk.url), ff, now)
                 ELSE [P |-> Probe, media |-> NoMedia, invoked |-> FALSE]
           proc == NewProcess(sid, tk.start_number, now)
           upd == update_seek_session([Reg EXCEPT !.procs = Append(procs, proc)],
                                      sid, tk.url, pid, tk.seek_time)
       IN  /\ ApplyProbe(pr.P)
           /\ IF upd.ok
              THEN /\ procs' = upd.R.procs
                   /\ sessions' = upd.R.sessions
                   /\ urlIndex' = upd.R.urlIndex
                   /\ dirs' = IF sid \in DOMAIN dirs /\ dirs[sid].json # <<>>
                              THEN [dirs EXCEPT ![sid].json[1].seek_offset = tk.seek_time]
                              ELSE dirs
                   /\ last' = [op |-> "spawn", sid |-> sid, pid |-> pid,
                               cmd |-> seek_command(tk.url, TranscodeHw(settings),
                                                    MediaInfoOf(tk.url, pr.media),
                                                    MaxResolution(settings),
                                                    VaapiDevice(settings), tk.seek_time,
                                                    tk.start_number).cmd]
                   /\ UNCHANGED order
              ELSE /\ procs' = Append(procs, Ended(proc, "killed", 0))
                   /\ last' = [op |-> "seek_transcode", task |-> t, sid |-> sid,
                               seek_time |-> tk.seek_time,
                               segment_num |-> tk.start_number, result |-> "e404"]
                   /\ UNCHANGED <<regVars, dirs>>
           /\ tasks' = [tasks EXCEPT ![t] = IdleTask]
    /\ UNCHANGED <<now, settings, nextSid, up>>

(***************************************************************************)
(* Server start: the module state is empty, the series probe cache is      *)
(* loaded from its file, and cleanup_and_recover_sessions sweeps the       *)
(* directories in the order glob() yields them.                            *)
(***************************************************************************)
GlobOrders(S) ==
    {q \in [1..Cardinality(S) -> S] : \A i, j \in 1..Cardinality(S) : i # j => q[i] # q[j]}

\* restoring the probe cache from a recovered descriptor
RestoreProbe(P, info, t) ==
    IF info.probe = NoMedia THEN P
    ELSE restore_probe_cache_entry(P, info.url, info.probe, info.series_id,
                                   info.episode_id, t)

\* now - mtime > cache_timeout
DirExpiredInclusive(age, cache_timeout) == age >= cache_timeout
DirExpired(age, cache_timeout) == age > cache_timeout

\* What makes the sweep's try block raise on a session.json: the text is not
\* JSON (json.loads), the key "session_id" is missing (KeyError), or "probe"
\* holds a value that is not an object (p.get raises AttributeError).  A
\* descriptor written by this program has none of these.
DescriptorFaults == {"none", "not_json", "no_session_id", "probe_not_dict"}
DescriptorFault(info) == IF "fault" \in DOMAIN info THEN info.fault ELSE "none"

\* one directory of the sweep; S is [R, P]
RecoverDir(S, d, t, st) ==
    LET dir == S.R.dirs[d]
        drop == [S EXCEPT !.R = RmTree(S.R, d)]
    IN  IF dir.json = <<>> THEN drop
        ELSE IF DirExpired(t - dir.mtime, get_vod_cache_timeout(st)) THEN drop
        ELSE IF dir.segs \cup dir.small = {} THEN drop
        ELSE LET info == dir.json[1]
                 sid == info.session_id
                 s == [dir |-> d, proc |-> DeadProcess, started |-> info.started,
                       url |-> info.url, is_vod |-> TRUE, last_access |-> t,
                       subtitles |-> IF info.subtitles # <<>> THEN PyList(info.subtitles)
                                     ELSE PyNone,
                       duration |-> info.duration,
                       seek_offset |-> info.seek_offset, series_id |-> info.series_id,
                       episode_id |-> info.episode_id, username |-> info.username,
                       source_id |-> info.source_id]
                 R1 == [S.R EXCEPT !.sessions = Put(@, sid, s),
                                   !.order = IF sid \in DOMAIN S.R.sessions THEN @
                                             ELSE Append(@, sid)]
                 existing_id == IF info.url \in DOMAIN R1.urlIndex
                                THEN R1.urlIndex[info.url] ELSE 0
                 has_existing == existing_id \in DOMAIN R1.sessions
                 existing_seek == IF has_existing
                                  THEN R1.sessions[existing_id].seek_offset ELSE 0
                 existing_mtime == IF has_existing
                                   THEN R1.sessions[existing_id].last_access ELSE 0
                 prefer == \/ existing_id = 0
                           \/ info.seek_offset > 0 /\ existing_seek = 0
                           \/ /\ existing_seek = 0 /\ info.seek_offset = 0
                              /\ dir.mtime > existing_mtime
                 R2 == IF prefer THEN [R1 EXCEPT !.urlIndex = Put(@, info.url, sid)]
                       ELSE R1
             IN  IF DescriptorFault(info) = "not_json" THEN drop
                 ELSE IF ~(info.is_vod /\ info.url # "") THEN drop
                 ELSE IF DescriptorFault(info) = "no_session_id" THEN drop
                 ELSE IF DescriptorFault(info) = "probe_not_dict"
                 THEN [R |-> RmTree(R2, d), P |-> S.P]
                 ELSE [R |-> R2, P |-> RestoreProbe(S.P, info, t)]

RECURSIVE Sweep(_, _, _, _)
Sweep(S, q, t, st) ==
    IF q = <<>> THEN S ELSE Sweep(RecoverDir(S, Head(q), t, st), Tail(q), t, st)

\* cleanup_and_recover_sessions on the state a fresh process starts with
cleanup_and_recover_sessions(glob, t, st) ==
    Sweep([R |-> [sessions |-> EmptyFn, order |-> <<>>, urlIndex |-> EmptyFn,
                  procs |-> [p \in 1..Len(procs) |->
                               IF procs[p].state = "alive"
                               THEN Ended([procs[p] EXCEPT !.mon = "none"], "killed", 0)
                               ELSE Ended([procs[p] EXCEPT !.mon = "none"],
                                          procs[p].state, procs[p].code)],
                  dirs |-> dirs],
           P |-> [probeCache |-> EmptyFn, seriesCache |-> LoadSeries(seriesFile),
                  seriesFile |-> seriesFile]],
          glob, t, st)

\* the server process ends (shutdown or crash) and is started again
Restart(glob) ==
    /\ LET S == cleanup_and_recover_sessions(glob, now, settings)
       IN  /\ Apply(S.R)
           /\ ApplyProbe(S.P)
    /\ tasks' = [t \in TaskIds |-> IdleTask]
    /\ up' = TRUE
    /\ last' = [op |-> "cleanup_and_recover_sessions"]
    /\ UNCHANGED <<now, settings, nextSid>>

(***************************************************************************)
(* Spec: the registry through its whole life.  One user plays a movie,     *)
(* with or without a cap of one stream; the session is reused, resumed,    *)
(* replaced, evicted, stopped, expired, and the server is shut down and    *)
(* started again.  (Seeking is exercised in SpecSeek.)                     *)
(***************************************************************************)
SettingsChoices ==
    {[vod_transcode_cache_mins |-> v, live_transcode_cache_secs |-> 0,
      do_probe |-> FALSE, user_max |-> 0, source_max |-> 0] : v \in {0, 1}}

Init ==
    /\ InitCommon
    /\ settings \in SettingsChoices

Next ==
    \/ \E d \in TickSteps : Tick(d)
    \/ \E p \in 1..MaxPid, code \in {0, 1} : ProcExit(p, code)
    \/ \E p \in 1..MaxPid : ProcWrite(p)
    \/ \E sid \in 1..MaxSid : TouchSession(sid)
    \/ \E sid \in 1..MaxSid, force \in BOOLEAN : StopSessionCall(sid, force)
    \/ CleanupExpiredCall
    \/ ShutdownCall
    \/ ClearUrlSession("movie1")
    \/ \E user_max \in {0, 1} :
          StartBegin("t1", "movie1", "alice", "src1", user_max, settings.source_max)
    \/ StartSpawn("t1")
    \/ StartWaitOk("t1")
    \/ StartWaitFail("t1")
    \/ ResumeSpawn("t1", NoMedia)
    \/ ResumeDied("t1")
    \/ ResumeDone("t1")
    \/ \E p \in 1..MaxPid : MonitorResume(p)
    \/ \E glob \in GlobOrders(DOMAIN dirs) : Restart(glob)

Spec == Init /\ [][Next]_vars

\* C1: after every mutating operation of the registry, every entry of the URL
\* index (_url_to_session) maps to a session id present in the session table
\* (_transcode_sessions).
C1_UrlIndexPointsToSession ==
    \A u \in DOMAIN urlIndex : urlIndex[u] \in DOMAIN sessions

\* the URL index leads to a session with a live process and a heartbeat at
\* most 30 s old
ActiveSessionFor(u) ==
    /\ u \in DOMAIN urlIndex
    /\ urlIndex[u] \in DOMAIN sessions
    /\ sessions[urlIndex[u]].proc # DeadProcess
    /\ procs[sessions[urlIndex[u]].proc].state = "alive"
    /\ now - (IF sessions[urlIndex[u]].last_access = NoAccess
              THEN sessions[urlIndex[u]].started
              ELSE sessions[urlIndex[u]].last_access) <= 30

\* C16 as claimed: a start_transcode request for a URL whose session is valid
\* and has a live process returns that session, creates no session and no
\* directory, and spawns and ends no process, whoever asks and whatever the
\* stream caps (also when the user is at the cap because of that session).
C16_ActiveSessionReused ==
    [][(last'.op = "start_transcode" /\ ActiveSessionFor(last'.url))
       => /\ last'.result = "reused"
          /\ last'.sid = urlIndex[last'.url]
          /\ DOMAIN sessions' = DOMAIN sessions
          /\ DOMAIN dirs' = DOMAIN dirs
          /\ procs' = procs]_vars

(***************************************************************************)
(* SpecStart: one request at a time starts a live channel, a movie or an   *)
(* episode; the transcoder may write its segments, exit, or hang until the *)
(* wait times out.                                                         *)
(***************************************************************************)
StartSettings ==
    {[vod_transcode_cache_mins |-> v, live_transcode_cache_secs |-> l,
      do_probe |-> TRUE, user_max |-> 0, source_max |-> 0] :
        v \in {0, 1}, l \in {0, 10}}

InitStart ==
    /\ InitCommon
    /\ settings \in StartSettings

NextStart ==
    \/ \E d \in TickSteps : Tick(d)
    \/ \E p \in 1..MaxPid, code \in {0, 1} : ProcExit(p, code)
    \/ \E p \in 1..MaxPid : ProcWrite(p)
    \/ \E u \in URLs : StartBegin("t1", u, "alice", "src1", 0, 0)
    \/ \E ff \in {NoMedia, 720} : StartProbe("t1", ff)
    \/ StartSpawn("t1")
    \/ StartWaitOk("t1")
    \/ StartWaitFail("t1")
    \/ \E ff \in {NoMedia, 720} : ResumeSpawn("t1", ff)
    \/ ResumeDied("t1")
    \/ ResumeDone("t1")
    \/ \E p \in 1..MaxPid : MonitorResume(p)

SpecStart == InitStart /\ [][NextStart]_vars

\* C9 as claimed: when a fresh start fails to reach playlist readiness and the
\* start error is raised, the attempt's process is terminated, its session is
\* gone from the registry and from the URL index, and its directory is deleted.
C9_FailedStartTornDown ==
    (last.op = "start_failed" /\ last.raised) =>
        /\ procs[last.pid].state # "alive"
        /\ last.sid \notin DOMAIN sessions
        /\ \A u \in DOMAIN urlIndex : urlIndex[u] # last.sid
        /\ last.sid \notin DOMAIN dirs

(***************************************************************************)
(* SpecRetry: one start_transcode request on the empty registry, followed  *)
(* to its end through the probe, the spawn, the wait and the retry.        *)
(***************************************************************************)
NextRetry ==
    \/ \E d \in TickSteps : Tick(d)
    \/ \E p \in 1..MaxPid, code \in {0, 1} : ProcExit(p, code)
    \/ \E p \in 1..MaxPid : ProcWrite(p)
    \/ \E u \in URLs : nextSid = 1 /\ StartBegin("t1", u, "alice", "src1", 0, 0)
    \/ \E ff \in {NoMedia, 720} : StartProbe("t1", ff)
    \/ StartSpawn("t1")
    \/ StartWaitOk("t1")
    \/ StartWaitFail("t1")

SpecRetry == InitStart /\ [][NextRetry]_vars

\* C10: a start_transcode request makes at most two fresh-start attempts: a
\* failed first attempt is retried exactly when a series id was given, after
\* invalidate_series_probe_cache(series_id, episode_id) has dropped the
\* episode's entry; without a series id, and after a failed retry, the error
\* is raised to the caller and the request ends.
C10_RetryOnceForSeries ==
    last.op = "start_failed" =>
        /\ last.attempt \in {1, 2}
        /\ last.raised <=> ~(ContentType(last.url) = "series" /\ last.attempt = 1)
        /\ last.raised => tasks[last.task].pc = "idle"
        /\ ~last.raised =>
              /\ tasks[last.task].pc \in {"probe", "spawn"}
              /\ tasks[last.task].attempt = 2
              /\ \A sr \in DOMAIN seriesCache :
                    sr = SeriesOf(last.url) =>
                        EpisodeOf(last.url) \notin DOMAIN seriesCache[sr].episodes

C10_Witness ==
    /\ last.op = "start_failed"
    /\ last.attempt = 2
    /\ last.raised
    /\ ContentType(last.url) = "series"

(***************************************************************************)
(* SpecCaps: admission control with fixed caps.  Two requests run          *)
(* concurrently and interleave at their await points; every session is     *)
(* created by start_transcode from an empty registry.                      *)
(***************************************************************************)
CapsSettings ==
    {[vod_transcode_cache_mins |-> v, live_transcode_cache_secs |-> 0,
      do_probe |-> FALSE, user_max |-> 1, source_max |-> 1] : v \in {0, 1}}

InitCaps ==
    /\ InitCommon
    /\ settings \in CapsSettings

NextCaps ==
    \/ \E d \in TickSteps : Tick(d)
    \/ \E p \in 1..MaxPid, code \in {0, 1} : ProcExit(p, code)
    \/ \E p \in 1..MaxPid : ProcWrite(p)
    \/ \E t \in TaskIds, u \in {"movie1", "ep1"} :
          StartBegin(t, u, "alice", "src1", settings.user_max, settings.source_max)
    \/ \E t \in TaskIds : StartSpawn(t)
    \/ \E t \in TaskIds : StartWaitOk(t)
    \/ \E t \in TaskIds : StartWaitFail(t)

SpecCaps == InitCaps /\ [][NextCaps]_vars

\* C7 as claimed: with fixed positive caps and every session created through
\* start_transcode, the registry never holds more than userMax sessions of
\* one user nor more than sourceMax sessions on one source.
C7_CapsNeverExceeded ==
    /\ \A username \in Users :
          Cardinality({sid \in DOMAIN sessions : sessions[sid].username = username})
              <= settings.user_max
    /\ \A source_id \in Sources :
          Cardinality({sid \in DOMAIN sessions : sessions[sid].source_id = source_id})
              <= settings.source_max

(***************************************************************************)
(* SpecLimits: enforce_stream_limits on registries of three VOD sessions   *)
(* recovered at server start, owned by either user on either source, some  *)
(* with equal start times; a request with caps of 0, 1 or 2 then starts a  *)
(* live channel (refused requests may be repeated, one is admitted).       *)
(***************************************************************************)
LimitSids == {11, 12, 13}
LimitUrl(sid) == IF sid = 11 THEN "movie1" ELSE "ep1"
RecoveredSession(sid, username, source_id, started, t) ==
    [dir |-> sid, proc |-> DeadProcess, started |-> started, url |-> LimitUrl(sid),
     is_vod |-> TRUE, last_access |-> t, subtitles |-> PyNone, duration |-> 0,
     seek_offset |-> 0,
     series_id |-> SeriesOf(LimitUrl(sid)), episode_id |-> EpisodeOf(LimitUrl(sid)),
     username |-> username, source_id |-> source_id]
RecoveredDir(sid, s, t) ==
    [segs |-> {0}, small |-> {}, playlist |-> [seq |-> 0, entries |-> <<0>>],
     json |-> <<SessionInfo(sid, s, NoMedia)>>, mtime |-> t]

InitLimits ==
    /\ now = 2
    /\ \E owner \in [LimitSids -> Users], src \in [LimitSids -> Sources],
          st \in [LimitSids -> {0, 1}] :
          /\ sessions = [sid \in LimitSids |->
                            RecoveredSession(sid, owner[sid], src[sid], st[sid], now)]
          /\ dirs = [sid \in LimitSids |->
                        RecoveredDir(sid, RecoveredSession(sid, owner[sid], src[sid],
                                                           st[sid], now), st[sid])]
    /\ order = <<11, 12, 13>>
    /\ urlIndex = ("movie1" :> 11) @@ ("ep1" :> 12)
    /\ procs = <<>>
    /\ settings = [vod_transcode_cache_mins |-> 1, live_transcode_cache_secs |-> 0,
                   do_probe |-> FALSE, user_max |-> 0, source_max |-> 0]
    /\ probeCache = EmptyFn
    /\ seriesCache = EmptyFn
    /\ seriesFile = EmptyFn
    /\ probeLock = NoThread
    /\ tasks = [t \in TaskIds |-> IdleTask]
    /\ nextSid = 1
    /\ up = TRUE
    /\ last = NoOp

NextLimits ==
    \/ \E user_max \in 0..2, source_max \in 0..2 :
          nextSid = 1 /\ StartBegin("t1", "live1", "alice", "src1", user_max, source_max)
    \/ StartSpawn("t1")
    \/ \E p \in 1..MaxPid : ProcWrite(p)
    \/ \E p \in 1..MaxPid, code \in {0, 1} : ProcExit(p, code)
    \/ StartWaitOk("t1")
    \/ StartWaitFail("t1")

SpecLimits == InitLimits /\ [][NextLimits]_vars

OlderOrFirst(v, c) ==
    \/ sessions[v].started < sessions[c].started
    \/ /\ sessions[v].started = sessions[c].started
       /\ \A i, j \in 1..Len(order) : (order[i] = v /\ order[j] = c) => i <= j

\* C5: whenever enforce_stream_limits evicts, the evicted session has the
\* smallest 'started' among the qualifying sessions (the caller's sessions on
\* that source for a source-cap eviction, all of the caller's sessions for a
\* user-cap eviction), the first inserted among equals; no session of another
\* user is evicted.
C5_EvictsOldestOwn ==
    [][last'.op = "start_transcode" =>
          LET ev == last'.ev
              gone(i) == {ev[j].victim.sid : j \in 1..(i - 1)}
              qualifying(i) ==
                  {c \in DOMAIN sessions \ gone(i) :
                      /\ sessions[c].username = last'.username
                      /\ ev[i].kind = "source" => sessions[c].source_id = last'.source_id}
          IN  /\ \A sid \in DOMAIN sessions \ DOMAIN sessions' :
                    \/ \E i \in 1..Len(ev) : ev[i].victim.sid = sid
                    \/ sessions[sid].url = last'.url
              /\ \A i \in 1..Len(ev) : ev[i].victim.sid \notin DOMAIN sessions'
              /\ \A i \in 1..Len(ev) :
                    /\ ev[i].victim.sid \in qualifying(i)
                    /\ \A c \in qualifying(i) : OlderOrFirst(ev[i].victim.sid, c)]_vars

C5_Witness ==
    /\ last.op = "start_transcode"
    /\ \E i \in 1..Len(last.ev) :
          /\ last.ev[i].kind = "user"
          /\ \E c \in last.ev[i].cands :
                /\ c.sid # last.ev[i].victim.sid
                /\ c.started = last.ev[i].victim.started
          /\ \E sid \in DOMAIN sessions : sessions[sid].username # last.username

\* C6: when the source already has at least sourceMax sessions and none of
\* them is the caller's, start_transcode raises the capacity error (429) and
\* the registry, the URL index, the processes and the directories stay as
\* they were: nothing is evicted, no directory is created, nothing is spawned.
C6_SourceCapRefuses ==
    [][(/\ last'.op = "start_transcode"
        /\ last'.source_max > 0
        /\ Cardinality({sid \in DOMAIN sessions :
                           sessions[sid].source_id = last'.source_id}) >= last'.source_max
        /\ \A sid \in DOMAIN sessions :
              sessions[sid].source_id = last'.source_id
                  => sessions[sid].username # last'.username)
       => /\ last'.result = "e429"
          /\ UNCHANGED <<sessions, order, urlIndex, procs, dirs, tasks, nextSid>>]_vars

C6_Witness ==
    /\ last.op = "start_transcode"
    /\ last.result = "e429"
    /\ last.user_max > 0
    /\ Cardinality({sid \in DOMAIN sessions : sessions[sid].username = last.username})
           >= last.user_max

(***************************************************************************)
(* SpecProbe: the probe caches.  Movies and episodes are started with      *)
(* probing switched on, ffprobe failing or reporting a height of 0 or 720; *)
(* the server is stopped and started again, recovering its VOD sessions.   *)
(***************************************************************************)
InitProbe ==
    /\ InitCommon
    /\ settings = [vod_transcode_cache_mins |-> 1, live_transcode_cache_secs |-> 0,
                   do_probe |-> TRUE, user_max |-> 0, source_max |-> 0]

NextProbe ==
    \/ \E d \in TickSteps : Tick(d)
    \/ \E p \in 1..MaxPid, code \in {0, 1} : ProcExit(p, code)
    \/ \E p \in 1..MaxPid : ProcWrite(p)
    \/ \E u \in {"movie1", "ep1"} : StartBegin("t1", u, "alice", "src1", 0, 0)
    \/ \E ff \in FFProbeOutcomes : StartProbe("t1", ff)
    \/ StartSpawn("t1")
    \/ StartWaitOk("t1")
    \/ StartWaitFail("t1")
    \/ \E ff \in FFProbeOutcomes : ResumeSpawn("t1", ff)
    \/ ResumeDied("t1")
    \/ ResumeDone("t1")
    \/ \E p \in 1..MaxPid : MonitorResume(p)
    \/ \E glob \in GlobOrders(DOMAIN dirs) : Restart(glob)

SpecProbe == InitProbe /\ [][NextProbe]_vars

\* C3 as claimed: neither the URL probe cache nor the per-series episode
\* cache ever holds an entry whose media metadata has height <= 0.
C3_NoInvalidHeightCached ==
    /\ \A u \in DOMAIN probeCache : probeCache[u].height > 0
    /\ \A sr \in DOMAIN seriesCache :
          \A e \in DOMAIN seriesCache[sr].episodes :
             seriesCache[sr].episodes[e].height > 0

(***************************************************************************)
(* SpecSeek: seek_transcode on a movie session whose transcoder has        *)
(* written none, two or four segments (the next one possibly begun) and is *)
(* still running or has exited.                                            *)
(***************************************************************************)
SeekWritten == {0, 2, 4}

InitSeek ==
    /\ now = 0
    /\ LET s == [dir |-> 1, proc |-> 1, started |-> 0, url |-> "movie1",
                 is_vod |-> TRUE, last_access |-> 0, subtitles |-> PyList(<<>>),
                 duration |-> 0, seek_offset |-> 0,
                 series_id |-> NoSeries, episode_id |-> NoEpisode,
                 username |-> "alice", source_id |-> "src1"]
       IN  /\ sessions = (1 :> s)
           /\ \E k \in SeekWritten, begun \in BOOLEAN, st \in {"alive", "exited"} :
                 /\ dirs = (1 :> [segs |-> 0..(k - 1),
                                  small |-> IF begun THEN {k} ELSE {},
                                  playlist |-> IF k = 0 THEN NoPlaylist
                                               ELSE [seq |-> 0,
                                                     entries |-> [i \in 1..k |-> i - 1]],
                                  json |-> <<SessionInfo(1, s, NoMedia)>>,
                                  mtime |-> 0])
                 /\ procs = <<IF st = "alive"
                              THEN [NewProcess(1, 0, 0) EXCEPT !.next = k]
                              ELSE Ended(NewProcess(1, 0, 0), st, 0)>>
    /\ order = <<1>>
    /\ urlIndex = ("movie1" :> 1)
    /\ settings = [vod_transcode_cache_mins |-> 1, live_transcode_cache_secs |-> 0,
                   do_probe |-> FALSE, user_max |-> 0, source_max |-> 0]
    /\ probeCache = EmptyFn
    /\ seriesCache = EmptyFn
    /\ seriesFile = EmptyFn
    /\ probeLock = NoThread
    /\ tasks = [t \in TaskIds |-> IdleTask]
    /\ nextSid = 2
    /\ up = TRUE
    /\ last = NoOp

NextSeek ==
    \/ \E sid \in 1..MaxSid, seek_time \in SeekTimes : SeekBegin("t1", sid, seek_time)
    \/ SeekSpawn("t1", NoMedia)
    \/ \E p \in 1..MaxPid : ProcWrite(p)
    \/ \E p \in 1..MaxPid, code \in {0, 1} : ProcExit(p, code)
    \/ \E sid \in 1..MaxSid : TouchSession(sid)

SpecSeek == InitSeek /\ [][NextSeek]_vars

\* C4: seek_transcode on a VOD session whose target segment (index
\* floor(t / 3)) exists with more than 1000 bytes spawns no process and
\* terminates none; it sets the session's seek offset to t and rewrites the
\* playlist with #EXT-X-MEDIA-SEQUENCE equal to the target index.
C4_SmartSeekKeepsProcess ==
    [][(/\ last'.op = "seek_transcode"
        /\ last'.sid \in DOMAIN sessions
        /\ sessions[last'.sid].is_vod
        /\ sessions[last'.sid].dir \in DOMAIN dirs
        /\ (last'.seek_time \div 3) \in dirs[sessions[last'.sid].dir].segs)
       => /\ procs' = procs
          /\ tasks'[last'.task].pc = "idle"
          /\ last'.sid \in DOMAIN sessions'
          /\ sessions'[last'.sid].seek_offset = last'.seek_time
          /\ dirs'[sessions[last'.sid].dir].playlist.seq = last'.seek_time \div 3]_vars

C4_Witness ==
    /\ last.op = "seek_transcode"
    /\ last.seek_time = 9
    /\ last.result = "smart"
    /\ last.sid \in DOMAIN sessions
    /\ procs[sessions[last.sid].proc].state = "alive"
    /\ dirs[sessions[last.sid].dir].playlist.seq = 3

\* C15 as claimed: whenever a seek changes a VOD session's seek offset, by a
\* smart seek or by restarting the process, the seek_offset in the
\* directory's session.json afterwards equals the session's seek offset.
C15_SeekOffsetPersisted ==
    [][\A sid \in DOMAIN sessions \cap DOMAIN sessions' :
          (sessions[sid].is_vod /\ sessions'[sid].seek_offset # sessions[sid].seek_offset)
          => /\ sessions'[sid].dir \in DOMAIN dirs'
             /\ dirs'[sessions'[sid].dir].json # <<>>
             /\ dirs'[sessions'[sid].dir].json[1].seek_offset
                   = sessions'[sid].seek_offset]_vars

(***************************************************************************)
(* SpecValid: is_session_valid and cleanup_expired_sessions on one session *)
(* whose heartbeat age, process, content class and retention settings are  *)
(* drawn around the thresholds.                                            *)
(***************************************************************************)
ValidNowSamples == {1, 5, 11, 12, 13, 31, 32, 33, 34, 46, 47, 48, 61, 62, 63, 64}
ValidSettings ==
    {[vod_transcode_cache_mins |-> v, live_transcode_cache_secs |-> l,
      do_probe |-> FALSE, user_max |-> 0, source_max |-> 0] :
        v \in {0, 1}, l \in {0, 10, 45}}

InitValid ==
    /\ \E la \in {NoAccess, 2}, u \in {"movie1", "live1"}, p \in {DeadProcess, 1} :
          /\ p = DeadProcess => IsVodType(ContentType(u))
          /\ sessions = (1 :> [dir |-> 1, proc |-> p, started |-> 1, url |-> u,
                               is_vod |-> IsVodType(ContentType(u)),
                               last_access |-> la, subtitles |-> PyList(<<>>),
                               duration |-> 0, seek_offset |-> 0,
                               series_id |-> NoSeries, episode_id |-> NoEpisode,
                               username |-> "alice", source_id |-> "src1"])
          /\ urlIndex = (u :> 1)
    /\ order = <<1>>
    /\ \E st \in {"alive", "exited"} :
          procs = <<IF st = "alive" THEN NewProcess(1, 0, 0)
                    ELSE Ended(NewProcess(1, 0, 0), st, 0)>>
    /\ dirs = (1 :> EmptyDir(0))
    /\ now \in ValidNowSamples
    /\ settings \in ValidSettings
    /\ probeCache = EmptyFn
    /\ seriesCache = EmptyFn
    /\ seriesFile = EmptyFn
    /\ probeLock = NoThread
    /\ tasks = [t \in TaskIds |-> IdleTask]
    /\ nextSid = 2
    /\ up = TRUE
    /\ last = NoOp

\* is_session_valid(session), as _get_existing_session calls it
ValidCheck(sid) ==
    /\ up
    /\ sid \in DOMAIN sessions
    /\ last' = [op |-> "is_session_valid", sid |-> sid,
                result |-> IsSessionValidIn(Reg, sid, now, settings)]
    /\ UNCHANGED <<regVars, diskVars, now, settings, probeVars, tasks, nextSid, up>>

NextValid ==
    \/ \E sid \in 1..MaxSid : ValidCheck(sid)
    \/ \E sid \in 1..MaxSid : TouchSession(sid)
    \/ \E p \in 1..MaxPid, code \in {0, 1} : ProcExit(p, code)
    \/ CleanupExpiredCall

SpecValid == InitValid /\ [][NextValid]_vars

\* what the claims read off a registered session
AgeOf(sid) ==
    now - (IF sessions[sid].last_access = NoAccess THEN sessions[sid].started
           ELSE sessions[sid].last_access)
AliveOf(sid) ==
    sessions[sid].proc # DeadProcess /\ procs[sessions[sid].proc].state = "alive"
RetentionOf(sid) ==
    IF sessions[sid].is_vod THEN 60 * settings.vod_transcode_cache_mins
    ELSE settings.live_transcode_cache_secs

\* C2: is_session_valid is false whenever the heartbeat age (now - last_access,
\* or now - started when last_access is missing) exceeds 30 s, whatever the
\* process, content class and retention; it is true whenever the process is
\* alive and the age is at most 30 s.
C2_HeartbeatTimeout ==
    last.op = "is_session_valid" =>
        /\ AgeOf(last.sid) > 30 => ~last.result
        /\ (AliveOf(last.sid) /\ AgeOf(last.sid) <= 30) => last.result

C2_Witness ==
    /\ last.op = "is_session_valid"
    /\ AliveOf(last.sid)
    /\ AgeOf(last.sid) = 30
    /\ sessions[last.sid].last_access = NoAccess
    /\ last.result

\* C8 as claimed: a session whose process has exited and whose retention T is
\* positive is valid for as long as its heartbeat age is below T.
C8_Claimed ==
    last.op = "is_session_valid" =>
        ((~AliveOf(last.sid) /\ RetentionOf(last.sid) > 0
             /\ AgeOf(last.sid) < RetentionOf(last.sid)) => last.result)

\* C8 amended: a session whose process has exited is valid exactly while its
\* heartbeat age is below its retention T and at most 30 s (so never when
\* T <= 0), and cleanup_expired_sessions removes it exactly when it is not.
DeadButCached(sid) ==
    /\ ~AliveOf(sid)
    /\ RetentionOf(sid) > 0
    /\ AgeOf(sid) < RetentionOf(sid)
    /\ AgeOf(sid) <= 30

C8_ValidWhileCached ==
    (last.op = "is_session_valid" /\ ~AliveOf(last.sid))
        => (last.result <=> DeadButCached(last.sid))

C8_CleanupKeepsCached ==
    [][last'.op = "cleanup_expired_sessions" =>
          \A sid \in DOMAIN sessions :
             ~AliveOf(sid) => (sid \in DOMAIN sessions' <=> DeadButCached(sid))]_vars

\* C8 (amended): both parts together, the validity rule of a session with an
\* exited process and what cleanup_expired_sessions keeps of such sessions.
C8_DeadButCached == [](C8_ValidWhileCached) /\ C8_CleanupKeepsCached

C8_Witness ==
    /\ last.op = "is_session_valid"
    /\ ~AliveOf(last.sid)
    /\ RetentionOf(last.sid) = 45
    /\ AgeOf(last.sid) = 30
    /\ last.result

(***************************************************************************)
(* SpecResume: a movie session recovered at server start, its transcoder   *)
(* gone and two segments on disk, is requested again and resumed; the      *)
(* resume process writes on, exits with status 0 or 1, or is killed by a   *)
(* stop, early or late, and _monitor_resume_ffmpeg reacts to its exit.     *)
(***************************************************************************)
ResumeSid == 11
ResumeTickSteps == {5, 10, 31}

InitResume ==
    /\ now = 0
    /\ LET s == RecoveredSession(ResumeSid, "alice", "src1", 0, 0)
       IN  /\ sessions = (ResumeSid :> s)
           /\ dirs = (ResumeSid :>
                        [segs |-> {0, 1}, small |-> {},
                         playlist |-> [seq |-> 0, entries |-> <<0, 1>>],
                         json |-> <<SessionInfo(ResumeSid, s, NoMedia)>>, mtime |-> 0])
    /\ order = <<ResumeSid>>
    /\ urlIndex = ("movie1" :> ResumeSid)
    /\ procs = <<>>
    /\ settings \in {[vod_transcode_cache_mins |-> v, live_transcode_cache_secs |-> 0,
                       do_probe |-> FALSE, user_max |-> 0, source_max |-> 0] :
                         v \in {0, 1}}
    /\ probeCache = EmptyFn
    /\ seriesCache = EmptyFn
    /\ seriesFile = EmptyFn
    /\ probeLock = NoThread
    /\ tasks = [t \in TaskIds |-> IdleTask]
    /\ nextSid = 1
    /\ up = TRUE
    /\ last = NoOp

\* stop_session called for the recovered session
StopRecovered(force) ==
    /\ up
    /\ Apply(StopSession(Reg, ResumeSid, force, now, settings))
    /\ last' = [op |-> "stop_session", sid |-> ResumeSid, force |-> force]
    /\ UNCHANGED <<now, settings, probeVars, tasks, nextSid, up>>

NextResume ==
    \/ \E d \in ResumeTickSteps : Tick(d)
    \/ \E p \in 1..MaxPid, code \in {0, 1} : ProcExit(p, code)
    \/ \E p \in 1..MaxPid : ProcWrite(p)
    \/ StartBegin("t1", "movie1", "alice", "src1", 0, 0)
    \/ ResumeSpawn("t1", NoMedia)
    \/ ResumeDied("t1")
    \/ ResumeDone("t1")
    \/ \E p \in 1..MaxPid : MonitorResume(p)
    \/ \E force \in BOOLEAN : StopRecovered(force)
    \/ StartSpawn("t1")
    \/ StartWaitOk("t1")
    \/ StartWaitFail("t1")

SpecResume == InitResume /\ [][NextResume]_vars

\* C11: when the process spawned for a VOD resume has exited with non-zero
\* status less than 10 s after its monitor started, _monitor_resume_ffmpeg
\* removes the session and the URL-index entry of its URL and deletes the
\* session's directory; when it exited with status 0, or 10 s or more after
\* the monitor started, the monitor leaves the registry, the URL index and
\* the directories as they are.
C11_QuickResumeFailureTornDown ==
    [][last'.op = "monitor_resume" =>
          LET m == procs[last'.pid]
              nonzero == m.state = "killed" \/ m.code # 0
              elapsed == now - m.mstart
          IN  /\ (nonzero /\ elapsed < 10) =>
                    /\ m.msid \notin DOMAIN sessions'
                    /\ m.murl \notin DOMAIN urlIndex'
                    /\ m.msid \in DOMAIN sessions =>
                           sessions[m.msid].dir \notin DOMAIN dirs'
              /\ (~nonzero \/ elapsed >= 10) =>
                    UNCHANGED <<sessions, order, urlIndex, dirs>>]_vars

C11_Witness ==
    /\ last.op = "monitor_resume"
    /\ last.teardown
    /\ procs[last.pid].state = "exited"
    /\ procs[last.pid].code = 1
    /\ now = 5
    /\ sessions = EmptyFn
    /\ urlIndex = EmptyFn
    /\ dirs = EmptyFn

(***************************************************************************)
(* SpecRecover: the recovery sweep at server start over two directories    *)
(* left on disk by an earlier run: with or without session.json, with a    *)
(* descriptor of this or of an older version (no is_vod, no url), with no  *)
(* segment, only a segment being written, or finished segments, modified   *)
(* just now, exactly the retention ago, or longer ago.                     *)
(***************************************************************************)
RecoverSids == {11, 12}
RecoverNow == 100
RecoverMtimes == {30, 40, 100}

RecoverDescriptor(sid, url, seek) ==
    [session_id |-> sid, url |-> url, is_vod |-> TRUE, started |-> 20,
     subtitles |-> <<>>, duration |-> 0, seek_offset |-> seek, series_id |-> SeriesOf(url), episode_id |-> EpisodeOf(url),
     username |-> "alice", source_id |-> "src1", probe |-> NoMedia]

RecoverDescriptors(sid) ==
    {<<>>,
     <<[RecoverDescriptor(sid, "movie1", 0) EXCEPT !.is_vod = FALSE]>>,
     <<RecoverDescriptor(sid, "", 0)>>}
    \cup {<<RecoverDescriptor(sid, u, k)>> : u \in {"movie1", "ep1"}, k \in {0, 4}}

RecoverFiles ==
    {[segs |-> {}, small |-> {}, playlist |-> NoPlaylist],
     [segs |-> {}, small |-> {0}, playlist |-> NoPlaylist],
     [segs |-> {0, 1}, small |-> {}, playlist |-> [seq |-> 0, entries |-> <<0, 1>>]]}

InitRecover ==
    /\ sessions = EmptyFn
    /\ order = <<>>
    /\ urlIndex = EmptyFn
    /\ procs = <<>>
    /\ \E js \in [RecoverSids -> UNION {RecoverDescriptors(sid) : sid \in RecoverSids}],
          fs \in [RecoverSids -> RecoverFiles], ms \in [RecoverSids -> RecoverMtimes] :
          /\ \A sid \in RecoverSids : js[sid] \in RecoverDescriptors(sid)
          /\ dirs = [sid \in RecoverSids |->
                        [segs |-> fs[sid].segs, small |-> fs[sid].small,
                         playlist |-> fs[sid].playlist, json |-> js[sid],
                         mtime |-> ms[sid]]]
    /\ now = RecoverNow
    /\ settings \in {[vod_transcode_cache_mins |-> v, live_transcode_cache_secs |-> 0,
                      do_probe |-> FALSE, user_max |-> 0, source_max |-> 0] :
                        v \in {0, 1}}
    /\ probeCache = EmptyFn
    /\ seriesCache = EmptyFn
    /\ seriesFile = EmptyFn
    /\ probeLock = NoThread
    /\ tasks = [t \in TaskIds |-> IdleTask]
    /\ nextSid = 1
    /\ up = FALSE
    /\ last = NoOp

NextRecover ==
    \/ \E glob \in GlobOrders(DOMAIN dirs) : Restart(glob)
    \/ CleanupExpiredCall
    \/ ShutdownCall

SpecRecover == InitRecover /\ [][NextRecover]_vars

\* what the claims read off a directory before the sweep
Descriptor(d) == dirs[d].json[1]
Unrecoverable(d) ==
    \/ dirs[d].json = <<>>
    \/ ~Descriptor(d).is_vod
    \/ Descriptor(d).url = ""
    \/ now - dirs[d].mtime > 60 * settings.vod_transcode_cache_mins
    \/ dirs[d].segs \cup dirs[d].small = {}

\* C12: cleanup_and_recover_sessions deletes a directory, and registers no
\* session for it, when it has no session.json, or its descriptor lacks is_vod
\* or url, or its modification age exceeds the VOD retention timeout, or it
\* holds no segment file; every other directory is kept on disk as it is and
\* registered under its descriptor's session id as a VOD session with the
\* dead placeholder process, and the URL index has an entry for its URL.
C12_SweepDeletesOrRecovers ==
    [][last'.op = "cleanup_and_recover_sessions" =>
          \A d \in DOMAIN dirs :
             IF Unrecoverable(d)
             THEN /\ d \notin DOMAIN dirs'
                  /\ \A sid \in DOMAIN sessions' : sessions'[sid].dir # d
             ELSE /\ d \in DOMAIN dirs'
                  /\ dirs'[d] = dirs[d]
                  /\ Descriptor(d).session_id \in DOMAIN sessions'
                  /\ LET s == sessions'[Descriptor(d).session_id]
                     IN  /\ s.dir = d
                         /\ s.is_vod
                         /\ s.url = Descriptor(d).url
                         /\ s.proc = DeadProcess
                  /\ Descriptor(d).url \in DOMAIN urlIndex']_vars

C12_Witness ==
    /\ last.op = "cleanup_and_recover_sessions"
    /\ DOMAIN dirs = {11}
    /\ dirs[11].mtime = 40
    /\ dirs[11].segs = {}
    /\ DOMAIN sessions = {11}
    /\ sessions[11].proc = DeadProcess
    /\ urlIndex = (sessions[11].url :> 11)
    /\ settings.vod_transcode_cache_mins = 1

\* C13 as claimed: of two recoverable directories of the same URL, swept in
\* either order, the URL index ends up at the one with seek offset > 0 when
\* exactly one has it, and at the more recently modified one when both have
\* seek offset 0.
C13_SweepPrefersSeekThenNewer ==
    [][last'.op = "cleanup_and_recover_sessions" =>
          \A a, b \in DOMAIN dirs :
             (/\ a # b
              /\ ~Unrecoverable(a)
              /\ ~Unrecoverable(b)
              /\ Descriptor(a).url = Descriptor(b).url)
             => LET u == Descriptor(a).url
                IN  /\ (Descriptor(a).seek_offset > 0 /\ Descriptor(b).seek_offset = 0)
                          => urlIndex'[u] = Descriptor(a).session_id
                    /\ (/\ Descriptor(a).seek_offset = 0
                        /\ Descriptor(b).seek_offset = 0
                        /\ dirs[a].mtime > dirs[b].mtime)
                          => urlIndex'[u] = Descriptor(a).session_id]_vars

(***************************************************************************)
(* SpecRoundTrip: a movie or an episode is started with probing on, its    *)
(* transcoder writes segments, the viewer seeks, and the server is         *)
(* stopped and started again, recovering what session.json holds.          *)
(***************************************************************************)
RoundTripSeekTimes == {0, 4}

NextRoundTrip ==
    \/ \E d \in TickSteps : Tick(d)
    \/ \E p \in 1..MaxPid, code \in {0, 1} : ProcExit(p, code)
    \/ \E p \in 1..MaxPid : ProcWrite(p)
    \/ \E u \in {"movie1", "ep1"} :
          nextSid = 1 /\ StartBegin("t1", u, "alice", "src1", 0, 0)
    \/ \E ff \in {NoMedia, 720} : StartProbe("t1", ff)
    \/ StartSpawn("t1")
    \/ StartWaitOk("t1")
    \/ StartWaitFail("t1")
    \/ \E sid \in 1..MaxSid, seek_time \in RoundTripSeekTimes :
          SeekBegin("t1", sid, seek_time)
    \/ \E ff \in {NoMedia, 720} : SeekSpawn("t1", ff)
    \/ \E glob \in GlobOrders(DOMAIN dirs) : Restart(glob)

SpecRoundTrip == InitProbe /\ [][NextRoundTrip]_vars

\* a VOD session whose directory holds a segment file and was modified within
\* the retention timeout
RecoverableSession(sid) ==
    /\ sessions[sid].is_vod
    /\ sessions[sid].dir \in DOMAIN dirs
    /\ dirs[sessions[sid].dir].segs \cup dirs[sessions[sid].dir].small # {}
    /\ now - dirs[sessions[sid].dir].mtime <= 60 * settings.vod_transcode_cache_mins

\* C14 as claimed: a server restart followed by cleanup_and_recover_sessions
\* gives every such session back under its session id, with the URL, seek
\* offset, subtitle descriptors (None standing for no descriptors), total
\* duration, series and episode ids, username and source id it had before
\* the restart and a process handle that is not alive, and the URL index
\* maps its URL to it.
C14_RestartRestoresSession ==
    [][last'.op = "cleanup_and_recover_sessions" =>
          \A sid \in DOMAIN sessions :
             RecoverableSession(sid) =>
                /\ sid \in DOMAIN sessions'
                /\ sessions'[sid].url = sessions[sid].url
                /\ sessions'[sid].seek_offset = sessions[sid].seek_offset
                /\ sessions'[sid].subtitles.items = sessions[sid].subtitles.items
                /\ sessions'[sid].duration = sessions[sid].duration
                /\ sessions'[sid].series_id = sessions[sid].series_id
                /\ sessions'[sid].episode_id = sessions[sid].episode_id
                /\ sessions'[sid].username = sessions[sid].username
                /\ sessions'[sid].source_id = sessions[sid].source_id
                /\ sessions'[sid].proc = DeadProcess
                /\ sessions[sid].url \in DOMAIN urlIndex'
                /\ urlIndex'[sessions[sid].url] = sid]_vars

(***************************************************************************)
(* SpecLock: stop_session and touch_session as threads that take the       *)
(* registry lock (_transcode_lock).  stop_session is cut where it blocks:  *)
(* each time.sleep of _kill_process, and the rmtree after the lock is      *)
(* released.  A thread holds the lock exactly while it is inside a `with   *)
(* _transcode_lock` block, which its position tells.                       *)
(***************************************************************************)
KILL_POLLS == 10          \* for _ in range(10) in _kill_process

\* positions inside a `with _transcode_lock` block
LockedPcs == {"stop_poll"}
LockHolders == {t \in TaskIds : tasks[t].pc \in LockedPcs}
LockFree == LockHolders = {}

LockSettings ==
    {[vod_transcode_cache_mins |-> v, live_transcode_cache_secs |-> 0,
      do_probe |-> FALSE, user_max |-> 0, source_max |-> 0] : v \in {0, 1}}

InitLock ==
    /\ \E u \in {"movie1", "live1"} :
          /\ sessions = (1 :> [dir |-> 1, proc |-> 1, started |-> 0, url |-> u,
                               is_vod |-> IsVodType(ContentType(u)),
                               last_access |-> 0, subtitles |-> PyList(<<>>),
                               duration |-> 0, seek_offset |-> 0,
                               series_id |-> NoSeries, episode_id |-> NoEpisode,
                               username |-> "alice", source_id |-> "src1"])
          /\ urlIndex = (u :> 1)
    /\ order = <<1>>
    /\ \E st \in {"alive", "exited"} :
          procs = <<IF st = "alive" THEN NewProcess(1, 0, 0)
                    ELSE Ended(NewProcess(1, 0, 0), st, 0)>>
    /\ dirs = (1 :> EmptyDir(0))
    /\ now \in {2, 10}
    /\ settings \in LockSettings
    /\ probeCache = EmptyFn
    /\ seriesCache = EmptyFn
    /\ seriesFile = EmptyFn
    /\ probeLock = NoThread
    /\ tasks = [t \in TaskIds |-> IdleTask]
    /\ nextSid = 2
    /\ up = TRUE
    /\ last = NoOp

\* stop_session from the end of _kill_process to the end of the `with` block:
\* the session is cached, or popped with the rmtree still to do
StopLockedRest(t, R, sid, force) ==
    LET s == R.sessions[sid]
    IN  IF ~force /\ CacheTimeout(settings, s.is_vod) > 0
        THEN /\ Apply([R EXCEPT !.sessions[sid].last_access = now])
             /\ tasks' = [tasks EXCEPT ![t] = IdleTask]
        ELSE /\ Apply(PopUrl(PopSession(R, sid), s.url))
             /\ tasks' = [tasks EXCEPT ![t] =
                             [IdleTask EXCEPT !.pc = "stop_rmtree", !.dir = s.dir]]

\* stop_session takes the lock; it returns at once for an unknown session or
\* within the grace period; else _kill_process sends SIGTERM and, when the
\* process is running, starts to poll for its exit
StopLockedBegin(t, sid, force) ==
    /\ up
    /\ tasks[t].pc = "idle"
    /\ LockFree
    /\ IF \/ sid \notin DOMAIN sessions
          \/ ~force /\ GraceProtects(StopGraceAge(sessions[sid], now))
       THEN /\ last' = [op |-> "stop_session", task |-> t, step |-> "ignored"]
            /\ UNCHANGED <<regVars, diskVars, tasks>>
       ELSE IF IsProcessAlive(Reg, sessions[sid].proc)
       THEN /\ tasks' = [tasks EXCEPT ![t] =
                            [IdleTask EXCEPT !.pc = "stop_poll", !.existing = sid,
                                             !.pid = sessions[sid].proc,
                                             !.force = force]]
            /\ last' = [op |-> "stop_session", task |-> t, step |-> "terminate"]
            /\ UNCHANGED <<regVars, diskVars>>
       ELSE /\ StopLockedRest(t, Reg, sid, force)
            /\ last' = [op |-> "stop_session", task |-> t, step |-> "unlocked"]
    /\ UNCHANGED <<now, settings, probeVars, nextSid, up>>

\* the process ends on the SIGTERM it was sent
ProcTerminated(p) ==
    /\ p \in 1..Len(procs)
    /\ procs[p].state = "alive"
    /\ \E t \in TaskIds : tasks[t].pc = "stop_poll" /\ tasks[t].pid = p
    /\ procs' = [procs EXCEPT ![p] = Ended(@, "killed", 0)]
    /\ last' = NoOp
    /\ UNCHANGED <<regVars, dirs, now, settings, probeVars, tasks, nextSid, up>>

\* _kill_process: returncode is still None, time.sleep(0.01)
StopPollSleep(t) ==
    /\ tasks[t].pc = "stop_poll"
    /\ procs[tasks[t].pid].state = "alive"
    /\ tasks[t].polls < KILL_POLLS
    /\ tasks' = [tasks EXCEPT ![t].polls = @ + 1]
    /\ last' = [op |-> "stop_session", task |-> t, step |-> "sleep"]
    /\ UNCHANGED <<regVars, diskVars, now, settings, probeVars, nextSid, up>>

\* _kill_process returns (the process has exited, or proc.kill() after the
\* last poll); the registry is updated and the lock released
StopPollDone(t) ==
    /\ tasks[t].pc = "stop_poll"
    /\ procs[tasks[t].pid].state # "alive" \/ tasks[t].polls = KILL_POLLS
    /\ StopLockedRest(t, KillProcess(Reg, tasks[t].pid), tasks[t].existing,
                      tasks[t].force)
    /\ last' = [op |-> "stop_session", task |-> t, step |-> "unlocked"]
    /\ UNCHANGED <<now, settings, probeVars, nextSid, up>>

\* shutil.rmtree(dir_to_remove), after the `with` block
StopRmtree(t) ==
    /\ tasks[t].pc = "stop_rmtree"
    /\ Apply(RmTree(Reg, tasks[t].dir))
    /\ tasks' = [tasks EXCEPT ![t] = IdleTask]
    /\ last' = [op |-> "stop_session", task |-> t, step |-> "rmtree"]
    /\ UNCHANGED <<now, settings, probeVars, nextSid, up>>

\* touch_session arrives at its `with _transcode_lock`
TouchRequest(t, sid) ==
    /\ up
    /\ tasks[t].pc = "idle"
    /\ tasks' = [tasks EXCEPT ![t] = [IdleTask EXCEPT !.pc = "touch_wait",
                                                      !.existing = sid]]
    /\ last' = [op |-> "touch_session", task |-> t, step |-> "wait"]
    /\ UNCHANGED <<regVars, diskVars, now, settings, probeVars, nextSid, up>>

\* touch_session gets the lock, records the heartbeat and returns
TouchLocked(t) ==
    /\ tasks[t].pc = "touch_wait"
    /\ LockFree
    /\ sessions' = IF tasks[t].existing \in DOMAIN sessions
                   THEN [sessions EXCEPT ![tasks[t].existing].last_access = now]
                   ELSE sessions
    /\ tasks' = [tasks EXCEPT ![t] = IdleTask]
    /\ last' = [op |-> "touch_session", task |-> t, step |-> "done"]
    /\ UNCHANGED <<order, urlIndex, diskVars, now, settings, probeVars, nextSid, up>>

NextLock ==
    \/ \E t \in TaskIds, force \in BOOLEAN : StopLockedBegin(t, 1, force)
    \/ \E p \in 1..MaxPid : ProcTerminated(p)
    \/ \E t \in TaskIds : StopPollSleep(t)
    \/ \E t \in TaskIds : StopPollDone(t)
    \/ \E t \in TaskIds : StopRmtree(t)
    \/ \E t \in TaskIds : TouchRequest(t, 1)
    \/ \E t \in TaskIds : TouchLocked(t)

SpecLock == InitLock /\ [][NextLock]_vars

\* C17 as claimed: no thread sleeps or waits for a process to exit while it
\* holds the registry lock, and a heartbeat waiting for the lock is never
\* waiting behind a process termination.
C17_LockNotHeldWhileBlocking ==
    /\ last.op = "stop_session" /\ last.step = "sleep" => last.task \notin LockHolders
    /\ \A t \in TaskIds :
          tasks[t].pc = "touch_wait" =>
             ~\E k \in TaskIds : tasks[k].pc = "stop_poll" /\ tasks[k].polls > 0

(***************************************************************************)
(* SpecStop: stop_session, with and without force, on one live or VOD      *)
(* session whose last access is 0, 4, 5 or 6 s old or missing, whose       *)
(* process runs, has exited or is the recovery placeholder; viewers send   *)
(* heartbeats in between, and stops are repeated on the stopped session.   *)
(***************************************************************************)
StopNowSamples == {2, 6, 7, 8}
StopSettings ==
    {[vod_transcode_cache_mins |-> v, live_transcode_cache_secs |-> l,
      do_probe |-> FALSE, user_max |-> 0, source_max |-> 0] :
        v \in {0, 1}, l \in {0, 10}}

InitStop ==
    /\ \E la \in {NoAccess, 2}, u \in {"movie1", "live1"}, p \in {DeadProcess, 1} :
          /\ p = DeadProcess => IsVodType(ContentType(u))
          /\ sessions = (1 :> [dir |-> 1, proc |-> p, started |-> 1, url |-> u,
                               is_vod |-> IsVodType(ContentType(u)),
                               last_access |-> la, subtitles |-> PyList(<<>>),
                               duration |-> 0, seek_offset |-> 0,
                               series_id |-> NoSeries, episode_id |-> NoEpisode,
                               username |-> "alice", source_id |-> "src1"])
          /\ urlIndex = (u :> 1)
    /\ order = <<1>>
    /\ \E st \in {"alive", "exited"} :
          procs = <<IF st = "alive" THEN NewProcess(1, 0, 0)
                    ELSE Ended(NewProcess(1, 0, 0), st, 0)>>
    /\ dirs = (1 :> EmptyDir(0))
    /\ now \in StopNowSamples
    /\ settings \in StopSettings
    /\ probeCache = EmptyFn
    /\ seriesCache = EmptyFn
    /\ seriesFile = EmptyFn
    /\ probeLock = NoThread
    /\ tasks = [t \in TaskIds |-> IdleTask]
    /\ nextSid = 2
    /\ up = TRUE
    /\ last = NoOp

NextStop ==
    \/ \E sid \in 1..MaxSid, force \in BOOLEAN : StopSessionCall(sid, force)
    \/ \E sid \in 1..MaxSid : TouchSession(sid)
    \/ \E p \in 1..MaxPid, code \in {0, 1} : ProcExit(p, code)
    \/ \E d \in TickSteps : Tick(d)

SpecStop == InitStop /\ [][NextStop]_vars

\* the session has a last_access less than 5 s old
RecentlyAccessed(sid) ==
    /\ sessions[sid].last_access # NoAccess
    /\ now - sessions[sid].last_access < 5

C19_StopTerminatesThenCachesOrRemoves ==
    [][last'.op = "stop_session" =>
          LET sid == last'.sid
              s == sessions[sid]
          IN  IF sid \notin DOMAIN sessions
              THEN UNCHANGED <<sessions, order, urlIndex, procs, dirs>>
              ELSE (last'.force \/ ~RecentlyAccessed(sid)) =>
                     /\ s.proc # DeadProcess => procs'[s.proc].state # "alive"
                     /\ IF ~last'.force /\ RetentionOf(sid) > 0
                        THEN /\ sid \in DOMAIN sessions'
                             /\ sessions'[sid] = [s EXCEPT !.last_access = now]
                             /\ UNCHANGED <<order, urlIndex, dirs>>
                        ELSE /\ sid \notin DOMAIN sessions'
                             /\ s.url \notin DOMAIN urlIndex'
                             /\ s.dir \notin DOMAIN dirs']_vars

C19_Witness ==
    /\ last.op = "stop_session"
    /\ ~last.force
    /\ last.sid \in DOMAIN sessions
    /\ sessions[last.sid].is_vod
    /\ sessions[last.sid].proc # DeadProcess
    /\ procs[sessions[last.sid].proc].state = "killed"
    /\ sessions[last.sid].last_access = now
    /\ now = 7

(***************************************************************************)
(* SpecCleanup: cleanup_expired_sessions as it runs: the list of expired   *)
(* sessions is taken under the lock, then stop_session(force) is called    *)
(* for each of them in turn.  Between these steps viewers of a movie and   *)
(* of a live channel send heartbeats and transcoders exit.                 *)
(***************************************************************************)
CleanupNowSamples == {41, 45, 75}

CleanupSession(sid, u, la) ==
    [dir |-> sid, proc |-> sid, started |-> 1, url |-> u,
     is_vod |-> IsVodType(ContentType(u)), last_access |-> la,
     subtitles |-> PyList(<<>>), duration |-> 0, seek_offset |-> 0,
     series_id |-> NoSeries, episode_id |-> NoEpisode,
     username |-> "alice", source_id |-> "src1"]

InitCleanup ==
    /\ \E la \in [{1, 2} -> {2, 40}] :
          sessions = (1 :> CleanupSession(1, "movie1", la[1]))
                     @@ (2 :> CleanupSession(2, "live1", la[2]))
    /\ order = <<1, 2>>
    /\ urlIndex = ("movie1" :> 1) @@ ("live1" :> 2)
    /\ \E st \in [{1, 2} -> {"alive", "exited"}] :
          procs = [p \in {1, 2} |->
                      IF st[p] = "alive" THEN NewProcess(p, 0, 0)
                      ELSE Ended(NewProcess(p, 0, 0), st[p], 0)]
    /\ dirs = (1 :> EmptyDir(0)) @@ (2 :> EmptyDir(0))
    /\ now \in CleanupNowSamples
    /\ settings \in StopSettings
    /\ probeCache = EmptyFn
    /\ seriesCache = EmptyFn
    /\ seriesFile = EmptyFn
    /\ probeLock = NoThread
    /\ tasks = [t \in TaskIds |-> IdleTask]
    /\ nextSid = 3
    /\ up = TRUE
    /\ last = NoOp

\* the `with` block of cleanup_expired_sessions: the expired list
CleanupSnapshot(t) ==
    /\ up
    /\ tasks[t].pc = "idle"
    /\ LET expired == SelectSeq(order, LAMBDA sid :
                                   ~IsSessionValidIn(Reg, sid, now, settings))
       IN  /\ tasks' = [tasks EXCEPT ![t] =
                           IF expired = <<>> THEN IdleTask
                           ELSE [IdleTask EXCEPT !.pc = "cleanup", !.expired = expired]]
           /\ last' = [op |-> "cleanup_step", step |-> "snapshot", task |-> t,
                       sid |-> 0, expired |-> SeqSet(expired)]
    /\ UNCHANGED <<regVars, diskVars, now, settings, probeVars, nextSid, up>>

\* one turn of the loop: stop_session(session_id, force=True)
CleanupStopNext(t) ==
    /\ up
    /\ tasks[t].pc = "cleanup"
    /\ LET sid == Head(tasks[t].expired)
           rest == Tail(tasks[t].expired)
       IN  /\ Apply(StopSession(Reg, sid, TRUE, now, settings))
           /\ tasks' = [tasks EXCEPT ![t] =
                           IF rest = <<>> THEN IdleTask
                           ELSE [tasks[t] EXCEPT !.expired = rest]]
           /\ last' = [op |-> "cleanup_step", step |-> "stop", task |-> t,
                       sid |-> sid, expired |-> SeqSet(rest)]
    /\ UNCHANGED <<now, settings, probeVars, nextSid, up>>

NextCleanup ==
    \/ CleanupSnapshot("t1")
    \/ CleanupStopNext("t1")
    \/ \E sid \in 1..MaxSid : TouchSession(sid)
    \/ \E p \in 1..MaxPid, code \in {0, 1} : ProcExit(p, code)

SpecCleanup == InitCleanup /\ [][NextCleanup]_vars

\* is_session_valid, as the claims state it
ValidNow(sid) ==
    /\ AgeOf(sid) <= 30
    /\ \/ AliveOf(sid)
       \/ RetentionOf(sid) > 0 /\ AgeOf(sid) < RetentionOf(sid)

\* C20 as claimed: cleanup_expired_sessions lists every session that is not
\* valid and removes each of them (process terminated, session and
\* URL-index entry removed, directory deleted), and no step of it changes a
\* session that is valid at that moment, a session that has received a
\* heartbeat since the cleanup began included.
C20_CleanupRemovesOnlyInvalid ==
    [][last'.op = "cleanup_step" =>
          /\ last'.step = "snapshot" =>
                last'.expired = {sid \in DOMAIN sessions : ~ValidNow(sid)}
          /\ last'.step = "stop" =>
                /\ last'.sid \notin DOMAIN sessions'
                /\ \A u \in DOMAIN urlIndex' : urlIndex'[u] # last'.sid
                /\ last'.sid \in DOMAIN sessions =>
                      /\ sessions[last'.sid].dir \notin DOMAIN dirs'
                      /\ procs'[sessions[last'.sid].proc].state # "alive"
          /\ \A sid \in DOMAIN sessions :
                ValidNow(sid) =>
                   /\ sid \in DOMAIN sessions'
                   /\ sessions'[sid] = sessions[sid]
                   /\ urlIndex'[sessions[sid].url] = urlIndex[sessions[sid].url]
                   /\ procs'[sessions[sid].proc] = procs[sessions[sid].proc]
                   /\ sessions[sid].dir \in DOMAIN dirs']_vars

(***************************************************************************)
(* SpecPlanStart: starts under every hardware policy, with and without a   *)
(* detected VAAPI device; the probe fails or reports a height below or      *)
(* above the resolution cap.  A spawned process exits, so that its start   *)
(* fails and, for an episode, is tried a second time.                       *)
(***************************************************************************)
PlanHeights == {NoMedia, 720, 1080}
PlanSettings ==
    {[vod_transcode_cache_mins |-> 1, live_transcode_cache_secs |-> 0,
      do_probe |-> TRUE, user_max |-> 0, source_max |-> 0,
      transcode_hw |-> hw, vaapi_device |-> dev, max_resolution |-> "720p"] :
        hw \in HwAccels, dev \in {NoDevice, RenderNode}}

InitPlanStart ==
    /\ InitCommon
    /\ settings \in PlanSettings

NextPlanStart ==
    \/ \E p \in 1..MaxPid : ProcExit(p, 1)
    \/ \E u \in URLs : StartBegin("t1", u, "alice", "src1", 0, 0)
    \/ \E ff \in PlanHeights : StartProbe("t1", ff)
    \/ StartSpawn("t1")
    \/ StartPlanFail("t1")
    \/ StartWaitFail("t1")

SpecPlanStart == InitPlanStart /\ [][NextPlanStart]_vars

\* the start of task t1 is about to plan its command with a policy that needs
\* VAAPI while no device was detected
VaapiPolicies == {"vaapi", "nvenc+vaapi", "amf+vaapi"}
PlanningWithoutDevice ==
    /\ tasks["t1"].pc = "spawn"
    /\ TranscodeHw(settings) \in VaapiPolicies
    /\ VaapiDevice(settings) = NoDevice
\* the step of t1 raises the configuration error to the caller: nothing is
\* spawned or registered and the start is not tried again
ConfigErrorSurfaced ==
    /\ last'.op = "start_config_error"
    /\ tasks'["t1"].pc = "idle"
    /\ procs' = procs /\ sessions' = sessions /\ nextSid' = nextSid

\* C21 as claimed: for every input, planning with a policy that needs VAAPI
\* while no VAAPI device was detected raises instead of returning a command,
\* and start_transcode hands the error to its caller without a second attempt.
C21_Claimed ==
    [][PlanningWithoutDevice /\ tasks'["t1"] # tasks["t1"]
       => PlanStart(tasks["t1"], settings).raised /\ ConfigErrorSurfaced]_vars

\* C21 amended: planning with a policy that needs VAAPI while no VAAPI device
\* was detected raises exactly when the video is not stream-copied, and then
\* start_transcode hands the error to its caller without a second attempt;
\* when the video is stream-copied the command is returned and the process is
\* spawned; with a device, or a policy that needs none, planning never raises.
C21_NoDeviceFailsUnlessCopy ==
    [][tasks["t1"].pc = "spawn" /\ tasks'["t1"] # tasks["t1"]
       => LET tk == tasks["t1"]
              copy == CopyVideo(MediaInfoOf(tk.url, tk.media), MaxResolution(settings))
          IN  IF PlanningWithoutDevice /\ ~copy
              THEN PlanStart(tk, settings).raised /\ ConfigErrorSurfaced
              ELSE /\ ~PlanStart(tk, settings).raised
                   /\ last'.op = "spawn"
                   /\ Len(procs') = Len(procs) + 1]_vars

\* the error was raised for a series episode, whose failed starts are
\* otherwise tried a second time
C21_Witness ==
    /\ last.op = "start_config_error"
    /\ SeriesOf(last.url) # NoSeries
    /\ last.attempt = 1
    /\ tasks["t1"].pc = "idle"

(***************************************************************************)
(* SpecPlan: build_hls_ffmpeg_cmd on its own, for every hardware policy,   *)
(* with and without a VAAPI device, with and without probed metadata.       *)
(***************************************************************************)
AudioSamples ==
    {[audio_codec |-> "aac", audio_channels |-> 2, audio_sample_rate |-> 48000,
      audio_profile |-> "LC"],
     [audio_codec |-> "aac", audio_channels |-> 2, audio_sample_rate |-> 44100,
      audio_profile |-> "HE-AAC"],
     [audio_codec |-> "ac3", audio_channels |-> 6, audio_sample_rate |-> 48000,
      audio_profile |-> ""]}
MediaInfos ==
    {NoMediaInfo} \cup
    {[none |-> FALSE, video_codec |-> vc, pix_fmt |-> pf, height |-> h,
      interlaced |-> il, audio_codec |-> a.audio_codec,
      audio_channels |-> a.audio_channels, audio_sample_rate |-> a.audio_sample_rate,
      audio_profile |-> a.audio_profile, is_hls |-> FALSE] :
        vc \in {"h264", "hevc"}, pf \in {"yuv420p", "yuv420p10le"},
        h \in {720, 1080}, il \in BOOLEAN, a \in AudioSamples}
PlanCallSettings ==
    {[vod_transcode_cache_mins |-> 1, live_transcode_cache_secs |-> 0,
      do_probe |-> TRUE, user_max |-> 0, source_max |-> 0,
      transcode_hw |-> hw, vaapi_device |-> dev, max_resolution |-> r] :
        hw \in HwAccels, dev \in {NoDevice, RenderNode},
        r \in {"720p", "source"}}

InitPlan ==
    /\ InitCommon
    /\ settings \in PlanCallSettings

\* build_hls_ffmpeg_cmd(url, hw, output_dir, is_vod, subtitles, media_info,
\* max_resolution, quality, user_agent, deinterlace_fallback)
PlanCall(media_info, is_vod, deinterlace_fallback) ==
    /\ LET plan == build_hls_ffmpeg_cmd("movie1", TranscodeHw(settings), is_vod,
                                        media_info, MaxResolution(settings),
                                        deinterlace_fallback, VaapiDevice(settings))
       IN  last' = [op |-> "build_hls_ffmpeg_cmd", media_info |-> media_info,
                    is_vod |-> is_vod, raised |-> plan.raised, cmd |-> plan.cmd]
    /\ UNCHANGED <<regVars, diskVars, now, settings, probeVars, tasks, nextSid, up>>

NextPlan ==
    \E media_info \in MediaInfos, is_vod \in BOOLEAN,
       deinterlace_fallback \in {"none", "true", "false"} :
        PlanCall(media_info, is_vod, deinterlace_fallback)

SpecPlan == InitPlan /\ [][NextPlan]_vars

\* the command holds token a directly followed by token b
Emits(cmd, a, b) == \E i \in 1..(Len(cmd) - 1) : cmd[i] = a /\ cmd[i + 1] = b
\* ffmpeg, an input, a video and an audio codec, and the playlist as output
CompleteCommand(cmd) ==
    /\ Len(cmd) > 0 /\ cmd[1] = "ffmpeg" /\ cmd[Len(cmd)] = "stream.m3u8"
    /\ Emits(cmd, "-i", "movie1")
    /\ \E i \in 1..Len(cmd) : cmd[i] = "-c:v"
    /\ \E i \in 1..Len(cmd) : cmd[i] = "-c:a"
\* the metadata allows a stream copy of the video under the cap
WithinCap(height, max_resolution) ==
    CASE max_resolution = "720p" -> height <= 720
      [] max_resolution = "1080p" -> height <= 1080
      [] OTHER -> TRUE
Copyable(m, max_resolution) ==
    /\ ~m.none
    /\ m.video_codec = "h264" /\ m.pix_fmt = "yuv420p"
    /\ WithinCap(m.height, max_resolution)
    /\ ~m.interlaced
CopyIffCompatible ==
    Emits(last.cmd, "-c:v", "copy") <=> Copyable(last.media_info, MaxResolution(settings))

\* C22 as claimed: the command has '-c:v copy' exactly when the metadata is
\* present with h264, yuv420p, a height not above the cap and not interlaced;
\* with absent metadata neither video nor audio is copied and a complete
\* command is still returned.
C22_Claimed ==
    last.op = "build_hls_ffmpeg_cmd"
    => /\ CopyIffCompatible
       /\ last.media_info.none
          => /\ ~last.raised
             /\ CompleteCommand(last.cmd)
             /\ ~Emits(last.cmd, "-c:v", "copy")
             /\ ~Emits(last.cmd, "-c:a", "copy")

\* C22 amended: the command has '-c:v copy' exactly when the metadata is
\* present with h264, yuv420p, a height not above the cap and not interlaced;
\* with absent metadata neither video nor audio is copied, and a complete
\* command is returned unless the hardware policy needs VAAPI and no device
\* was detected, in which case planning raises the configuration error.
C22_CopyIffCompatible ==
    last.op = "build_hls_ffmpeg_cmd"
    => /\ CopyIffCompatible
       /\ last.media_info.none
          => /\ ~Emits(last.cmd, "-c:v", "copy")
             /\ ~Emits(last.cmd, "-c:a", "copy")
             /\ last.raised <=> /\ TranscodeHw(settings) \in VaapiPolicies
                                /\ VaapiDevice(settings) = NoDevice
             /\ ~last.raised => CompleteCommand(last.cmd)

\* a video exactly at the cap is copied under a policy whose device is missing
C22_Witness ==
    /\ last.op = "build_hls_ffmpeg_cmd"
    /\ ~last.media_info.none
    /\ last.media_info.height = 720 /\ MaxResolution(settings) = "720p"
    /\ Emits(last.cmd, "-c:v", "copy")
    /\ ~Emits(last.cmd, "-c:a", "copy")
    /\ TranscodeHw(settings) = "vaapi" /\ VaapiDevice(settings) = NoDevice

(***************************************************************************)
(* SpecRace: two requests at a time on one recovered movie session with    *)
(* two segments: seeks that restart the transcoder, starts that resume it,  *)
(* and stops.  A request is suspended at its awaits, where the other runs.  *)
(***************************************************************************)
RaceSid == 1
RaceSeekTimes == {6, 9}

InitRace ==
    /\ now = 0
    /\ LET s == [RecoveredSession(RaceSid, "alice", "src1", 0, 0) EXCEPT
                     !.url = "movie1", !.series_id = NoSeries,
                     !.episode_id = NoEpisode]
       IN  /\ sessions = (RaceSid :> s)
           /\ dirs = (RaceSid :>
                        [segs |-> {0, 1}, small |-> {},
                         playlist |-> [seq |-> 0, entries |-> <<0, 1>>],
                         json |-> <<SessionInfo(RaceSid, s, NoMedia)>>, mtime |-> 0])
    /\ procs = <<>>
    /\ order = <<RaceSid>>
    /\ urlIndex = ("movie1" :> RaceSid)
    /\ settings = [vod_transcode_cache_mins |-> 1, live_transcode_cache_secs |-> 0,
                   do_probe |-> FALSE, user_max |-> 0, source_max |-> 0]
    /\ probeCache = EmptyFn
    /\ seriesCache = EmptyFn
    /\ seriesFile = EmptyFn
    /\ probeLock = NoThread
    /\ tasks = [t \in TaskIds |-> IdleTask]
    /\ nextSid = RaceSid + 1
    /\ up = TRUE
    /\ last = NoOp

NextRace ==
    \/ \E t \in TaskIds, seek_time \in RaceSeekTimes : SeekBegin(t, RaceSid, seek_time)
    \/ \E t \in TaskIds : SeekSpawn(t, NoMedia)
    \/ \E t \in TaskIds : StartBegin(t, "movie1", "alice", "src1", 0, 0)
    \/ \E t \in TaskIds : ResumeSpawn(t, NoMedia)
    \/ \E t \in TaskIds : ResumeDone(t)
    \/ \E t \in TaskIds : ResumeDied(t)
    \/ \E t \in TaskIds : StartSpawn(t)
    \/ \E t \in TaskIds : StartWaitOk(t)
    \/ \E t \in TaskIds : StartWaitFail(t)
    \/ \E p \in 1..MaxPid : MonitorResume(p)
    \/ \E p \in 1..MaxPid : ProcExit(p, 0)
    \/ \E p \in 1..MaxPid : ProcWrite(p)
    \/ StopSessionCall(RaceSid, TRUE)

SpecRace == InitRace /\ [][NextRace]_vars

\* C23 as claimed: every transcoder process that runs is the process recorded
\* in the session whose directory it writes; any other process spawned for
\* the session has been sent a termination signal (or has exited).
C23_NoOrphanProcess ==
    \A p \in 1..Len(procs) :
        procs[p].state = "alive"
        => \E sid \in DOMAIN sessions :
              sessions[sid].proc = p /\ sessions[sid].dir = procs[p].dir

(***************************************************************************)
(* SpecReuse: start_transcode for a movie whose session is in the registry *)
(* with an exited transcoder: recovered by the sweep or left by a process   *)
(* that ended, with or without segment files (the last one possibly         *)
(* unfinished), with or without a seek offset, until its heartbeat is too  *)
(* old.  No stream caps are in force.                                       *)
(***************************************************************************)
ReuseSid == 1
ReuseSeekOffsets == {0, 6}
ReuseFiles ==
    {[segs |-> {}, small |-> {}], [segs |-> {0, 1}, small |-> {}],
     [segs |-> {0, 1}, small |-> {2}]}

InitReuse ==
    /\ now = 0
    /\ \E off \in ReuseSeekOffsets, f \in ReuseFiles, recovered \in BOOLEAN :
          LET s == [RecoveredSession(ReuseSid, "alice", "src1", 0, 0) EXCEPT
                        !.url = "movie1", !.series_id = NoSeries,
                        !.episode_id = NoEpisode, !.seek_offset = off,
                        !.proc = IF recovered THEN DeadProcess ELSE 1]
          IN  /\ sessions = (ReuseSid :> s)
              /\ dirs = (ReuseSid :>
                           [segs |-> f.segs, small |-> f.small,
                            playlist |-> IF f.segs = {} THEN NoPlaylist
                                         ELSE [seq |-> 0, entries |-> <<0, 1>>],
                            json |-> <<SessionInfo(ReuseSid, s, NoMedia)>>,
                            mtime |-> 0])
              /\ procs = IF recovered THEN <<>>
                         ELSE <<Ended(NewProcess(ReuseSid, 0, 0), "exited", 0)>>
    /\ order = <<ReuseSid>>
    /\ urlIndex = ("movie1" :> ReuseSid)
    /\ settings = [vod_transcode_cache_mins |-> 1, live_transcode_cache_secs |-> 0,
                   do_probe |-> FALSE, user_max |-> 0, source_max |-> 0]
    /\ probeCache = EmptyFn
    /\ seriesCache = EmptyFn
    /\ seriesFile = EmptyFn
    /\ probeLock = NoThread
    /\ tasks = [t \in TaskIds |-> IdleTask]
    /\ nextSid = ReuseSid + 1
    /\ up = TRUE
    /\ last = NoOp

NextReuse ==
    \/ \E d \in TickSteps : Tick(d)
    \/ \E p \in 1..MaxPid, code \in {0, 1} : ProcExit(p, code)
    \/ \E p \in 1..MaxPid : ProcWrite(p)
    \/ StartBegin("t1", "movie1", "alice", "src1", 0, 0)
    \/ StartSpawn("t1")
    \/ StartWaitOk("t1")
    \/ StartWaitFail("t1")
    \/ ResumeSpawn("t1", NoMedia)
    \/ ResumeDied("t1")
    \/ ResumeDone("t1")
    \/ \E p \in 1..MaxPid : MonitorResume(p)

SpecReuse == InitReuse /\ [][NextReuse]_vars

\* the URL index leads to a valid VOD session whose process has exited and
\* whose directory holds a segment file
DeadCachedWithSegments(u) ==
    /\ u \in DOMAIN urlIndex
    /\ urlIndex[u] \in DOMAIN sessions
    /\ sessions[urlIndex[u]].is_vod
    /\ ~IsProcessAlive(Reg, sessions[urlIndex[u]].proc)
    /\ IsSessionValidIn(Reg, urlIndex[u], now, settings)
    /\ DirFiles(Reg, sessions[urlIndex[u]].dir) # {}
\* the decision of start_transcode for such a session
ReuseDecision ==
    (last'.op = "start_transcode" /\ DeadCachedWithSegments(last'.url))
    => LET sid == urlIndex[last'.url]
       IN  /\ last'.sid = sid
           /\ procs' = procs
           /\ DOMAIN sessions' = DOMAIN sessions
           /\ DOMAIN dirs' = DOMAIN dirs
           /\ IF sessions[sid].seek_offset > 0
              THEN last'.result = "reused" /\ tasks'[last'.task].pc = "idle"
              ELSE last'.result = "resuming" /\ tasks'[last'.task].pc = "resume_spawn"
\* the one spawn of the resume, the session being still registered (the
\* monitor of an earlier resume may have torn it down in between)
ResumeAppends ==
    (/\ tasks["t1"].pc = "resume_spawn" /\ tasks'["t1"].pc # "resume_spawn"
     /\ tasks["t1"].existing \in DOMAIN sessions)
    => LET sid == tasks["t1"].existing
           d == sessions[sid].dir
           pid == Len(procs) + 1
       IN  /\ Len(procs') = pid
           /\ procs'[pid].state = "alive" /\ procs'[pid].dir = d
           /\ SubSeq(procs', 1, Len(procs)) = procs
           /\ DOMAIN sessions' = DOMAIN sessions
           /\ sessions'[sid] = [sessions[sid] EXCEPT !.proc = pid]
           /\ urlIndex' = urlIndex
           /\ tasks'["t1"].pc = "resume_wait"
           /\ \E i \in 1..(Len(last'.cmd) - 2) :
                 /\ last'.cmd[i] = "-ss"
                 /\ last'.cmd[i + 1] =
                       ToString(Len(dirs[d].playlist.entries) * HLS_SEGMENT_DURATION_SEC)
                 /\ last'.cmd[i + 2] = "-i"
           /\ Emits(last'.cmd, "-hls_flags", "independent_segments+append_list")
           /\ Emits(last'.cmd, "-start_number",
                    ToString(Cardinality(dirs[d].segs \cup dirs[d].small)))

ReplaceSids == {11, 12}
ReplaceSeekOffsets == {0, 4}

InitReplace ==
    /\ sessions = EmptyFn
    /\ order = <<>>
    /\ urlIndex = EmptyFn
    /\ procs = <<>>
    /\ \E ks \in [ReplaceSids -> ReplaceSeekOffsets] :
          dirs = [sid \in ReplaceSids |->
                    [segs |-> {0, 1}, small |-> {},
                     playlist |-> [seq |-> 0, entries |-> <<0, 1>>],
                     json |-> <<[RecoverDescriptor(sid, "movie1", ks[sid])
                                    EXCEPT !.started = 0]>>,
                     mtime |-> 0]]
    /\ now = 0
    /\ settings = [vod_transcode_cache_mins |-> 0, live_transcode_cache_secs |-> 0,
                   do_probe |-> FALSE, user_max |-> 0, source_max |-> 0]
    /\ probeCache = EmptyFn
    /\ seriesCache = EmptyFn
    /\ seriesFile = EmptyFn
    /\ probeLock = NoThread
    /\ tasks = [t \in TaskIds |-> IdleTask]
    /\ nextSid = 1
    /\ up = FALSE
    /\ last = NoOp

NextReplace ==
    \/ ~up /\ \E glob \in GlobOrders(DOMAIN dirs) : Restart(glob)
    \/ \E d \in TickSteps : Tick(d)
    \/ \E p \in 1..MaxPid, code \in {0, 1} : ProcExit(p, code)
    \/ \E p \in 1..MaxPid : ProcWrite(p)
    \/ StartBegin("t1", "movie1", "alice", "src1", 0, 0)
    \/ StartSpawn("t1")
    \/ StartWaitOk("t1")
    \/ StartWaitFail("t1")

SpecReplace == InitReplace /\ [][NextReplace]_vars

\* start_transcode finds a session for the URL that is not valid: it is torn
\* down before anything of the new session is registered
InvalidTornDown ==
    (/\ last'.op = "start_transcode" /\ last'.result # "e429"
     /\ last'.url \in DOMAIN urlIndex
     /\ urlIndex[last'.url] \in DOMAIN sessions
     /\ ~IsSessionValidIn(Reg, urlIndex[last'.url], now, settings))
    => LET ex == urlIndex[last'.url]
           tk == tasks'[last'.task]
       IN  /\ ex \notin DOMAIN sessions'
           /\ last'.url \notin DOMAIN urlIndex'
           /\ sessions[ex].dir \notin DOMAIN dirs'
           /\ ~IsProcessAlive([procs |-> procs'], sessions[ex].proc)
           /\ \A sid \in DOMAIN sessions \ {ex} :
                 sid \in DOMAIN sessions' /\ sessions'[sid] = sessions[sid]
           /\ tk.pc = "spawn" /\ tk.sid \notin DOMAIN sessions'
           /\ tk.old_seek = sessions[ex].seek_offset
\* the new session is registered with the seek offset taken over
NewTakesOverSeek ==
    (tasks["t1"].pc = "spawn" /\ tasks'["t1"].pc = "wait")
    => LET tk == tasks["t1"]
       IN  /\ tk.sid \in DOMAIN sessions'
           /\ sessions'[tk.sid].seek_offset = tk.old_seek
           /\ sessions'[tk.sid].url = tk.url
           /\ urlIndex'[tk.url] = tk.sid
\* the start succeeded: the URL index leads to the session returned
IndexAfterStart ==
    (last'.op = "start_done" /\ last'.result = "ok")
    => /\ last'.sid \in DOMAIN sessions'
       /\ sessions'[last'.sid].url = last'.url
       /\ urlIndex'[last'.url] = last'.sid
\* ... and no other session of the registry has that URL
OneSessionAfterStart ==
    (last'.op = "start_done" /\ last'.result = "ok")
    => \A sid \in DOMAIN sessions' :
          sessions'[sid].url = last'.url => sid = last'.sid

\* C25 as claimed: a session for U found invalid by start_transcode has its
\* process terminated, its registry entry and the URL-index entry removed and
\* its directory deleted before the new session is registered; after a
\* successful start exactly one session with URL U is in the registry, the
\* URL index maps U to it, and it starts with the seek offset of the replaced
\* session.
C25_Claimed ==
    [][InvalidTornDown /\ NewTakesOverSeek /\ IndexAfterStart
       /\ OneSessionAfterStart]_vars

\* C25 amended: as claimed, except that after the successful start the URL
\* index maps U to the new session while other sessions with URL U (recovered
\* by the sweep from a second directory) may remain in the registry.
C25_InvalidSessionReplaced ==
    [][InvalidTornDown /\ NewTakesOverSeek /\ IndexAfterStart]_vars

\* a recovered session with seek offset 4 was replaced and the start succeeded
\* with that offset
C25_Witness ==
    /\ last.op = "start_done" /\ last.result = "ok"
    /\ sessions[last.sid].seek_offset = 4
    /\ DOMAIN dirs \cap ReplaceSids # ReplaceSids

(***************************************************************************)
(* SpecPrune: two recovered sessions of one movie are in the registry and  *)
(* the URL index leads to one of them; sessions are then removed by a      *)
(* forced stop, by admission of a live stream at a user cap of one, by the *)
(* expiry cleanup, and by the teardown after a quickly failed resume.      *)
(***************************************************************************)
PruneSids == {11, 12}

InitPrune ==
    /\ sessions = EmptyFn
    /\ order = <<>>
    /\ urlIndex = EmptyFn
    /\ procs = <<>>
    /\ \E ks \in [PruneSids -> {0, 4}] :
          dirs = [sid \in PruneSids |->
                    [segs |-> {0, 1}, small |-> {},
                     playlist |-> [seq |-> 0, entries |-> <<0, 1>>],
                     json |-> <<[RecoverDescriptor(sid, "movie1", ks[sid])
                                    EXCEPT !.started = 0]>>,
                     mtime |-> 0]]
    /\ now = 0
    /\ settings = [vod_transcode_cache_mins |-> 1, live_transcode_cache_secs |-> 0,
                   do_probe |-> FALSE, user_max |-> 0, source_max |-> 0]
    /\ probeCache = EmptyFn
    /\ seriesCache = EmptyFn
    /\ seriesFile = EmptyFn
    /\ probeLock = NoThread
    /\ tasks = [t \in TaskIds |-> IdleTask]
    /\ nextSid = 1
    /\ up = FALSE
    /\ last = NoOp

\* stop_session(session_id, force=True) for one of the recovered sessions
StopForced(sid) ==
    /\ up
    /\ sid \in PruneSids
    /\ Apply(StopSession(Reg, sid, TRUE, now, settings))
    /\ last' = [op |-> "stop_session", sid |-> sid, force |-> TRUE]
    /\ UNCHANGED <<now, settings, probeVars, tasks, nextSid, up>>

NextPrune ==
    \/ ~up /\ \E glob \in GlobOrders(DOMAIN dirs) : Restart(glob)
    \/ \E d \in TickSteps : Tick(d)
    \/ \E p \in 1..MaxPid : ProcExit(p, 1)
    \/ \E p \in 1..MaxPid : ProcWrite(p)
    \/ \E sid \in PruneSids : StopForced(sid)
    \/ CleanupExpiredCall
    \/ StartBegin("t1", "movie1", "alice", "src1", 0, 0)
    \/ nextSid = 1 /\ StartBegin("t1", "live1", "alice", "src1", 1, 0)
    \/ StartSpawn("t1")
    \/ StartWaitOk("t1")
    \/ StartWaitFail("t1")
    \/ ResumeSpawn("t1", NoMedia)
    \/ ResumeDied("t1")
    \/ ResumeDone("t1")
    \/ \E p \in 1..MaxPid : MonitorResume(p)

SpecPrune == InitPrune /\ [][NextPrune]_vars

\* the sessions a step removes from the registry
Removed == DOMAIN sessions \ DOMAIN sessions'

\* C26: removing a session deletes the URL-index entry of its URL only if the
\* entry points to the removed session; an entry that points to a different
\* session with the same URL (one that stays registered) is left unchanged.
C26_PruneOnlyOwnEntry ==
    [][\A sid \in Removed :
          LET u == sessions[sid].url
          IN  u \in DOMAIN urlIndex =>
                 IF urlIndex[u] = sid
                 THEN u \notin DOMAIN urlIndex' \/ urlIndex'[u] # sid
                 ELSE urlIndex[u] \in DOMAIN sessions'
                         => (u \in DOMAIN urlIndex' /\ urlIndex'[u] = urlIndex[u])]_vars

(***************************************************************************)
(* SpecSeekEnd: seeks of the one recovered movie session run concurrently  *)
(* and the session is stopped by force while they wait for their spawn.     *)
(***************************************************************************)
NextSeekEnd ==
    \/ \E t \in TaskIds, seek_time \in RaceSeekTimes : SeekBegin(t, RaceSid, seek_time)
    \/ \E t \in TaskIds : SeekSpawn(t, NoMedia)
    \/ \E p \in 1..MaxPid : ProcExit(p, 0)
    \/ \E p \in 1..MaxPid : ProcWrite(p)
    \/ StopSessionCall(RaceSid, TRUE)

SpecSeekEnd == InitRace /\ [][NextSeekEnd]_vars

\* a seek that restarts the process returns from the spawn in this step
SeekCompletes(t) == tasks[t].pc = "seek_spawn" /\ tasks'[t].pc # "seek_spawn"

\* the update, or the not-found outcome when the session is gone
SeekUpdate ==
    \A t \in TaskIds : SeekCompletes(t) =>
       LET sid == tasks[t].existing
           pid == Len(procs')
       IN  /\ Len(procs') = Len(procs) + 1
           /\ IF sid \in DOMAIN sessions
              THEN /\ sessions'[sid].proc = pid
                   /\ procs'[pid].state = "alive"
                   /\ sessions'[sid].seek_offset = tasks[t].seek_time
                   /\ last'.op = "spawn"
              ELSE /\ procs'[pid].state # "alive"
                   /\ sessions' = sessions /\ order' = order
                   /\ urlIndex' = urlIndex
                   /\ last'.op = "seek_transcode" /\ last'.result = "e404"
\* before that step the seek changes neither handle nor offset: between the
\* kill and the update the registry shows the old handle with the old offset
NoHalfUpdate ==
    (\E t \in TaskIds : tasks[t].pc = "idle" /\ tasks'[t].pc = "seek_spawn")
       => sessions' = sessions

\* C27: a process-restart seek replaces the process handle and the seek offset
\* of the session in one step, so that no state shows the new handle with the
\* old offset or the reverse; if the session is gone from the registry by
\* then, the new process is terminated, registry and URL index stay as they
\* were and the request fails with a not-found error.
C27_SeekUpdateAtomic == [][SeekUpdate /\ NoHalfUpdate]_vars
\* a restart seek changed the offset of the session to 9 with a new handle
C27_Witness ==
    /\ last.op = "spawn"
    /\ last.sid \in DOMAIN sessions
    /\ sessions[last.sid].seek_offset = 9
    /\ sessions[last.sid].proc = last.pid
    /\ \E t \in TaskIds : tasks[t].pc = "seek_spawn"

(***************************************************************************)
(* SpecSeekFiles: two recovered VOD sessions with their directories; the   *)
(* first directory holds any set of segment files that earlier seeks can    *)
(* have left, possibly one unfinished segment, and subtitle files.          *)
(***************************************************************************)
SeekFileSegs == 0..3
SeekFileSubs == {{}, {0}, {0, 1}}

SeekFileSession(sid, url) ==
    [dir |-> sid, proc |-> DeadProcess, started |-> 0, url |-> url,
     is_vod |-> TRUE, last_access |-> 0, subtitles |-> PyList(<<>>),
     duration |-> 0, seek_offset |-> 0,
     series_id |-> SeriesOf(url), episode_id |-> EpisodeOf(url),
     username |-> "alice", source_id |-> "src1"]
SeekFileDir(sid, url, segs, small, vtt) ==
    [segs |-> segs, small |-> small,
     playlist |-> IF segs = {} THEN NoPlaylist
                  ELSE [seq |-> WrittenOrder(segs)[1], entries |-> WrittenOrder(segs)],
     json |-> <<SessionInfo(sid, SeekFileSession(sid, url), NoMedia)>>,
     mtime |-> 0, vtt |-> vtt]

InitSeekFiles ==
    /\ now = 0
    /\ sessions = (1 :> SeekFileSession(1, "movie1")) @@ (2 :> SeekFileSession(2, "ep1"))
    /\ \E segs \in SUBSET SeekFileSegs, vtt \in SeekFileSubs :
       \E small \in {{}} \cup {{k} : k \in SeekFileSegs \ segs} :
          dirs = (1 :> SeekFileDir(1, "movie1", segs, small, vtt))
                 @@ (2 :> SeekFileDir(2, "ep1", {0, 1, 3}, {}, {0}))
    /\ order = <<1, 2>>
    /\ urlIndex = ("movie1" :> 1) @@ ("ep1" :> 2)
    /\ procs = <<>>
    /\ settings = [vod_transcode_cache_mins |-> 1, live_transcode_cache_secs |-> 0,
                   do_probe |-> FALSE, user_max |-> 0, source_max |-> 0]
    /\ probeCache = EmptyFn
    /\ seriesCache = EmptyFn
    /\ seriesFile = EmptyFn
    /\ probeLock = NoThread
    /\ tasks = [t \in TaskIds |-> IdleTask]
    /\ nextSid = 3
    /\ up = TRUE
    /\ last = NoOp

NextSeekFiles ==
    \/ \E seek_time \in SeekTimes : SeekBegin("t1", 1, seek_time)
    \/ SeekSpawn("t1", NoMedia)
    \/ \E p \in 1..MaxPid : ProcWrite(p)
    \/ \E p \in 1..MaxPid : ProcExit(p, 0)

SpecSeekFiles == InitSeekFiles /\ [][NextSeekFiles]_vars

\* the segment files of a directory, finished or not
SegFiles(dir) == dir.segs \cup dir.small

\* C28: a process-restart seek to target segment index n deletes the playlist,
\* every segment file with index >= n and every subtitle file of the session,
\* and leaves every segment file with index < n and the session descriptor in
\* place; files of other sessions are untouched.
C28_SeekClearsFromTarget ==
    [][(last'.op = "seek_transcode" /\ last'.result = "restarting") =>
          LET d == sessions[last'.sid].dir
              n == last'.segment_num
          IN  /\ dirs'[d].playlist = NoPlaylist
              /\ SegFiles(dirs'[d]) = {k \in SegFiles(dirs[d]) : k < n}
              /\ dirs'[d].segs = {k \in dirs[d].segs : k < n}
              /\ dirs'[d].vtt = {}
              /\ dirs'[d].json = dirs[d].json
              /\ \A o \in DOMAIN dirs \ {d} : o \in DOMAIN dirs' /\ dirs'[o] = dirs[o]]_vars
\* a restart seek to segment 1 has kept segment 0 and removed later segments
\* and subtitle files, the other session's directory being as it was
C28_Witness ==
    /\ last.op = "seek_transcode" /\ last.result = "restarting"
    /\ last.segment_num = 1
    /\ dirs[1].segs = {0} /\ dirs[1].vtt = {} /\ dirs[1].mtime = now
    /\ dirs[1].playlist = NoPlaylist
    /\ dirs[2].segs = {0, 1, 3} /\ dirs[2].vtt = {0}

(***************************************************************************)
(* SpecSweepFault: the server starts over two directories with segments,   *)
(* whose descriptors may be unreadable in one of the ways that make the     *)
(* sweep's try block raise; later the registry is cleaned of expired        *)
(* sessions and the server is started again.                                *)
(***************************************************************************)
FaultSids == {11, 12}

InitSweepFault ==
    /\ sessions = EmptyFn
    /\ order = <<>>
    /\ urlIndex = EmptyFn
    /\ procs = <<>>
    /\ \E us \in [FaultSids -> {"movie1", "ep1"}], ks \in [FaultSids -> {0, 4}],
          fs \in [FaultSids -> DescriptorFaults] :
          dirs = [sid \in FaultSids |->
                    [segs |-> {0, 1}, small |-> {},
                     playlist |-> [seq |-> 0, entries |-> <<0, 1>>],
                     json |-> <<RecoverDescriptor(sid, us[sid], ks[sid])
                                   @@ [fault |-> fs[sid]]>>,
                     mtime |-> 0]]
    /\ now = 0
    /\ settings = [vod_transcode_cache_mins |-> 1, live_transcode_cache_secs |-> 0,
                   do_probe |-> FALSE, user_max |-> 0, source_max |-> 0]
    /\ probeCache = EmptyFn
    /\ seriesCache = EmptyFn
    /\ seriesFile = EmptyFn
    /\ probeLock = NoThread
    /\ tasks = [t \in TaskIds |-> IdleTask]
    /\ nextSid = 1
    /\ up = FALSE
    /\ last = NoOp

NextSweepFault ==
    \/ \E glob \in GlobOrders(DOMAIN dirs) : Restart(glob)
    \/ \E d \in TickSteps : Tick(d)
    \/ CleanupExpiredCall

SpecSweepFault == InitSweepFault /\ [][NextSweepFault]_vars

\* the candidates whose descriptor makes the sweep raise
Faulty(d) == dirs[d].json # <<>> /\ DescriptorFault(dirs[d].json[1]) # "none"

\* C29: if reading or interpreting a candidate's descriptor raises during the
\* recovery sweep, that directory is deleted and no session and no URL-index
\* entry for it remains in the registry afterwards; the sweep goes on to
\* process every remaining candidate (a readable one is kept and registered)
\* and returns normally.
C29_FaultyDescriptorLeavesNothing ==
    [][last'.op = "cleanup_and_recover_sessions" =>
          /\ up'
          /\ \A d \in DOMAIN dirs :
                IF Faulty(d)
                THEN /\ d \notin DOMAIN dirs'
                     /\ \A sid \in DOMAIN sessions' : sessions'[sid].dir # d
                     /\ \A u \in DOMAIN urlIndex' :
                           urlIndex'[u] \in DOMAIN sessions'
                              => sessions'[urlIndex'[u]].dir # d
                ELSE /\ d \in DOMAIN dirs'
                     /\ dirs[d].json[1].session_id \in DOMAIN sessions'
                     /\ sessions'[dirs[d].json[1].session_id].dir = d]_vars

(***************************************************************************)
(* Requests for a live URL whose session has lost its process, under       *)
(* SpecStart (live retention 0 or 10 seconds).                             *)
(***************************************************************************)
\* start_transcode for a live URL finds a session of that URL whose process
\* has exited, and is admitted
LiveSessionDead ==
    /\ last'.op = "start_transcode" /\ last'.result # "e429"
    /\ ~IsVodType(ContentType(last'.url))
    /\ last'.url \in DOMAIN urlIndex
    /\ urlIndex[last'.url] \in DOMAIN sessions
    /\ ~IsProcessAlive(Reg, sessions[urlIndex[last'.url]].proc)

\* C30: start_transcode for a live URL never returns a session whose process
\* has exited: a live session with a dead process is replaced by a fresh
\* start, for every value of the live retention setting.
C30_LiveDeadReplaced ==
    [][LiveSessionDead =>
          /\ last'.result # "reused"
          /\ urlIndex[last'.url] \notin DOMAIN sessions'
          /\ tasks'[last'.task].pc # "idle"]_vars

(***************************************************************************)
(* The probe of the retry, under SpecRetry: the first attempt of a series  *)
(* request has failed and the episode's entry has been invalidated.         *)
(***************************************************************************)
\* the probe_media call of a retry returns in this step
RetryProbes(t) ==
    /\ tasks[t].pc = "probe" /\ tasks[t].attempt = 2
    /\ last'.op = "probe_media" /\ last'.url = tasks[t].url

\* C31: after a failed episodic start has invalidated the episode's entry, the
\* probe_media call of the retry for the same URL, series and episode invokes
\* the external inspector anew and returns no metadata cached before the
\* invalidation, neither from the URL-keyed cache nor through the series MRU
\* fallback.
C31_RetryProbesAnew ==
    [][\A t \in TaskIds : RetryProbes(t) => last'.invoked]_vars

(***************************************************************************)
(* SpecProbeCall: probe_media and invalidate_series_probe_cache called on  *)
(* caches as the series file can have left them: series 1 with entries for  *)
(* episodes 1 and 2 that are just younger or just older than seven days,    *)
(* any MRU pointer, and possibly a fresh URL entry.                         *)
(***************************************************************************)
ProbeNow == SERIES_PROBE_CACHE_TTL_SEC + 100
ProbeEntryTimes == {0, 100, 101, ProbeNow - 50}
ProbeEpisodes == {1, 2}
EpisodeHeight(e) == IF e = 1 THEN 720 ELSE 1080

ProbeSeriesCaches ==
    {EmptyFn} \cup
    {(1 :> [mru |-> m, episodes |-> [e \in es |-> [time |-> ts[e], height |-> EpisodeHeight(e)]]]) :
        m \in {NoEpisode} \cup ProbeEpisodes,
        es \in SUBSET ProbeEpisodes,
        ts \in [ProbeEpisodes -> ProbeEntryTimes]}

InitProbeCall ==
    /\ sessions = EmptyFn
    /\ order = <<>>
    /\ urlIndex = EmptyFn
    /\ procs = <<>>
    /\ dirs = EmptyFn
    /\ now = ProbeNow
    /\ settings = [vod_transcode_cache_mins |-> 1, live_transcode_cache_secs |-> 0,
                   do_probe |-> TRUE, user_max |-> 0, source_max |-> 0]
    /\ probeCache \in {EmptyFn, ("ep1" :> [time |-> ProbeNow - 50, height |-> 480])}
    /\ seriesCache \in ProbeSeriesCaches
    /\ seriesFile = seriesCache
    /\ probeLock = NoThread
    /\ tasks = [t \in TaskIds |-> IdleTask]
    /\ nextSid = 1
    /\ up = TRUE
    /\ last = NoOp

\* probe_media(url, series_id, episode_id)
ProbeCall(url, series_id, episode_id, ff) ==
    /\ up
    /\ LET pr == probe_media(Probe, url, series_id, episode_id, ff, now)
       IN  /\ ApplyProbe(pr.P)
           /\ last' = [op |-> "probe_media", url |-> url, series_id |-> series_id,
                       episode_id |-> episode_id, media |-> pr.media,
                       invoked |-> pr.invoked]
    /\ UNCHANGED <<regVars, diskVars, now, settings, tasks, nextSid, up>>

\* invalidate_series_probe_cache(series_id, episode_id)
InvalidateCall(series_id, episode_id) ==
    /\ up
    /\ ApplyProbe(invalidate_series_probe_cache(Probe, series_id, episode_id))
    /\ last' = [op |-> "invalidate_series_probe_cache", series_id |-> series_id,
                episode_id |-> episode_id]
    /\ UNCHANGED <<regVars, diskVars, now, settings, tasks, nextSid, up>>

NextProbeCall ==
    \/ \E e \in {NoEpisode} \cup ProbeEpisodes, ff \in {NoMedia, 720} :
          ProbeCall("ep1", 1, e, ff)
    \/ \E e \in {NoEpisode} \cup ProbeEpisodes : InvalidateCall(1, e)

SpecProbeCall == InitProbeCall /\ [][NextProbeCall]_vars

\* the series entry of episode e exists and is younger than seven days
FreshEpisode(sr, e) ==
    /\ sr \in DOMAIN seriesCache
    /\ e \in DOMAIN seriesCache[sr].episodes
    /\ now - seriesCache[sr].episodes[e].time < 7 * 24 * 3600
\* the episode the MRU pointer of the series names, NoEpisode when there is none
MruOf(sr) == IF sr \in DOMAIN seriesCache THEN seriesCache[sr].mru ELSE NoEpisode

\* a fresh entry of the exact episode is returned and becomes the MRU
ExactHit ==
    (/\ last'.op = "probe_media" /\ last'.episode_id # NoEpisode
     /\ FreshEpisode(last'.series_id, last'.episode_id))
    => /\ last'.media = seriesCache[last'.series_id].episodes[last'.episode_id].height
       /\ ~last'.invoked
       /\ seriesCache'[last'.series_id].mru = last'.episode_id
\* without an entry of the exact episode, a fresh MRU entry is returned
MruHitWhenAbsent ==
    (/\ last'.op = "probe_media"
     /\ last'.series_id \in DOMAIN seriesCache
     /\ last'.episode_id \notin DOMAIN seriesCache[last'.series_id].episodes
     /\ MruOf(last'.series_id) # NoEpisode
     /\ FreshEpisode(last'.series_id, MruOf(last'.series_id)))
    => /\ last'.media = seriesCache[last'.series_id].episodes[MruOf(last'.series_id)].height
       /\ ~last'.invoked
\* with an entry of the exact episode older than seven days, likewise
MruHitWhenStale ==
    (/\ last'.op = "probe_media"
     /\ last'.series_id \in DOMAIN seriesCache
     /\ last'.episode_id \in DOMAIN seriesCache[last'.series_id].episodes
     /\ ~FreshEpisode(last'.series_id, last'.episode_id)
     /\ MruOf(last'.series_id) # NoEpisode
     /\ FreshEpisode(last'.series_id, MruOf(last'.series_id)))
    => /\ last'.media = seriesCache[last'.series_id].episodes[MruOf(last'.series_id)].height
       /\ ~last'.invoked

\* C32: probe_media with a series id returns a fresh cached entry of the exact
\* episode and sets the series MRU pointer to that episode; when the exact
\* episode's entry is absent or older than 7 days, it returns the entry of the
\* series' MRU episode if that is younger than 7 days; in both cases the
\* external inspector is not invoked.
C32_SeriesCacheLookup == [][ExactHit /\ MruHitWhenAbsent /\ MruHitWhenStale]_vars

(***************************************************************************)
(* SpecPlaylist: seeks on a recovered movie session whose directory holds  *)
(* the first segments, or the first segments and one written after a        *)
(* forward seek, or the segments around index 1000.                         *)
(***************************************************************************)
PlaylistSegSets == {{0, 1}, {0, 1, 5}, {998, 999, 1000}}
PlaylistSeekTimes == {0, 3, 15, 2994, 2997}

InitPlaylist ==
    /\ now = 0
    /\ sessions = (1 :> SeekFileSession(1, "movie1"))
    /\ \E segs \in PlaylistSegSets :
          dirs = (1 :> SeekFileDir(1, "movie1", segs, {}, {}))
    /\ order = <<1>>
    /\ urlIndex = ("movie1" :> 1)
    /\ procs = <<>>
    /\ settings = [vod_transcode_cache_mins |-> 1, live_transcode_cache_secs |-> 0,
                   do_probe |-> FALSE, user_max |-> 0, source_max |-> 0]
    /\ probeCache = EmptyFn
    /\ seriesCache = EmptyFn
    /\ seriesFile = EmptyFn
    /\ probeLock = NoThread
    /\ tasks = [t \in TaskIds |-> IdleTask]
    /\ nextSid = 2
    /\ up = TRUE
    /\ last = NoOp

NextPlaylist ==
    \/ \E seek_time \in PlaylistSeekTimes : SeekBegin("t1", 1, seek_time)
    \/ SeekSpawn("t1", NoMedia)
    \/ \E p \in 1..MaxPid : ProcWrite(p)
    \/ \E p \in 1..MaxPid : ProcExit(p, 0)

SpecPlaylist == InitPlaylist /\ [][NextPlaylist]_vars

\* C33: a playlist written by _regenerate_playlist for start index n lists
\* segments in strictly increasing index order with consecutive indices
\* beginning at n, so that its k-th entry is segment n+k as its media-sequence
\* number implies, also with segment indices of 1000 or more and with a gap
\* left by an earlier forward seek.
C33_PlaylistConsecutive ==
    [][(last'.op = "seek_transcode" /\ last'.result = "smart") =>
          LET pl == dirs'[sessions[last'.sid].dir].playlist
          IN  /\ pl.seq = last'.segment_num
              /\ \A k \in 1..Len(pl.entries) : pl.entries[k] = pl.seq + (k - 1)]_vars

(***************************************************************************)
(* SpecSeekPlan: the command of a restarting seek, for every hardware      *)
(* policy (the render node being present), without probe result and for     *)
(* probed movies and episodes, from a plain source or an HLS source.        *)
(***************************************************************************)
SeekPlanMedia ==
    {NoMediaInfo} \cup
    {[StreamFormat(u) EXCEPT !.height = 720, !.is_hls = hls] :
        u \in {"movie1", "ep1"}, hls \in BOOLEAN}
SeekPlanTimes == {0, 6, 9}

InitSeekPlan ==
    /\ InitCommon
    /\ settings \in {[vod_transcode_cache_mins |-> 1, live_transcode_cache_secs |-> 0,
                      do_probe |-> TRUE, user_max |-> 0, source_max |-> 0,
                      transcode_hw |-> hw, vaapi_device |-> RenderNode,
                      max_resolution |-> r] : hw \in HwAccels, r \in {"720p", "1080p"}}

\* the command seek_transcode builds for a seek to seek_time
SeekPlanCall(media_info, seek_time) ==
    /\ LET plan == seek_command("movie1", TranscodeHw(settings), media_info,
                                MaxResolution(settings), VaapiDevice(settings),
                                seek_time, SegmentNum(seek_time))
       IN  last' = [op |-> "seek_command", media_info |-> media_info,
                    seek_time |-> seek_time, raised |-> plan.raised, cmd |-> plan.cmd]
    /\ UNCHANGED <<regVars, diskVars, now, settings, probeVars, tasks, nextSid, up>>

NextSeekPlan ==
    \E media_info \in SeekPlanMedia, seek_time \in SeekPlanTimes :
        SeekPlanCall(media_info, seek_time)

SpecSeekPlan == InitSeekPlan /\ [][NextSeekPlan]_vars

\* the position of the input directive
InputAt(cmd) == CHOOSE i \in 1..Len(cmd) : cmd[i] = "-i"
\* '-ss t' directly before '-i'
SeekBeforeInput(cmd, t) ==
    \E i \in 1..(Len(cmd) - 2) :
        cmd[i] = "-ss" /\ cmd[i + 1] = PyFloatStr(t) /\ cmd[i + 2] = "-i"
\* '-output_ts_offset -t' once, after '-i'
ShiftAfterInput(cmd, t) ==
    /\ \E i \in 1..(Len(cmd) - 1) :
          cmd[i] = "-output_ts_offset" /\ cmd[i + 1] = PyNegFloatStr(t)
    /\ \A i \in 1..Len(cmd) : cmd[i] = "-output_ts_offset" => i > InputAt(cmd)

\* C34: in the command of a process-restart seek to time t, '-ss t' directly
\* precedes '-i' and '-output_ts_offset -t' stands after '-i' among the
\* output options, for every probe result, sources detected as HLS included.
C34_SeekOffsetsPlaced ==
    (last.op = "seek_command" /\ ~last.raised) =>
        /\ Cardinality({i \in 1..Len(last.cmd) : last.cmd[i] = "-i"}) = 1
        /\ SeekBeforeInput(last.cmd, last.seek_time)
        /\ ShiftAfterInput(last.cmd, last.seek_time)

(***************************************************************************)
(* SpecProbeLock: the probe caches under threads.  Every section of        *)
(* ffmpeg_command.py that runs under `with _probe_lock` is one step, taking *)
(* the lock is a step of its own, and so is the file write of               *)
(* _save_series_probe_cache, which runs after its `with` block.  Two        *)
(* threads call probe_media, invalidate_series_probe_cache,                 *)
(* clear_series_mru and clear_all_probe_cache on series 1.                  *)
(***************************************************************************)
LockOps == {"probe_media", "invalidate_series_probe_cache", "clear_series_mru",
            "clear_all_probe_cache"}
LockEpisodes == {NoEpisode, 1}
LockTask == [pc |-> "idle", op |-> "", series_id |-> NoSeries, episode_id |-> NoEpisode,
             ff |-> NoMedia, data |-> EmptyFn]
\* the positions at which a thread waits for _probe_lock, and the position
\* under the lock each of them leads to
LockWaits == {"lock", "url_lock", "write_lock", "save_lock"}
LockHeld(pc) ==
    CASE pc = "lock" -> "crit" [] pc = "url_lock" -> "url_crit"
      [] pc = "write_lock" -> "write_crit" [] pc = "save_lock" -> "save_crit"

InitProbeLock ==
    /\ InitCommon
    /\ settings = [vod_transcode_cache_mins |-> 1, live_transcode_cache_secs |-> 0,
                   do_probe |-> TRUE, user_max |-> 0, source_max |-> 0]

\* a thread enters one of the four functions; probe_media without a series
\* id goes to the URL cache at once
LockCall(t, op, series_id, episode_id, ff) ==
    /\ up /\ tasks[t].pc = "idle"
    /\ op # "probe_media" => series_id # NoSeries /\ ff = NoMedia
    /\ op \in {"clear_series_mru", "clear_all_probe_cache"} => episode_id = NoEpisode
    /\ tasks' = [tasks EXCEPT ![t] =
          [LockTask EXCEPT !.pc = IF op = "probe_media" /\ series_id = NoSeries
                                  THEN "url_lock" ELSE "lock",
                           !.op = op, !.series_id = series_id,
                           !.episode_id = episode_id, !.ff = ff]]
    /\ last' = [op |-> "probe_lock", thread |-> t]
    /\ UNCHANGED <<regVars, diskVars, now, settings, probeVars, nextSid, up>>

\* threading.Lock.acquire: blocks while the lock is held, by whichever thread
LockAcquire(t) ==
    /\ tasks[t].pc \in LockWaits
    /\ probeLock = NoThread
    /\ probeLock' = t
    /\ tasks' = [tasks EXCEPT ![t].pc = LockHeld(@)]
    /\ last' = [op |-> "probe_lock", thread |-> t]
    /\ UNCHANGED <<regVars, diskVars, now, settings, probeCache, seriesCache, seriesFile,
                   nextSid, up>>

\* a call of _save_series_probe_cache() placed inside the `with` block
ExitWithSaveInside(t, save) ==
    [probeLock |-> IF save THEN t ELSE NoThread,
     pc |-> IF save THEN "save_lock" ELSE "idle"]
\* the end of a `with _probe_lock` block, followed by the call of
\* _save_series_probe_cache() when there is one
ExitWith(t, save) ==
    [probeLock |-> NoThread, pc |-> IF save THEN "save_lock" ELSE "idle"]

\* the section under the lock of clear_all_probe_cache,
\* invalidate_series_probe_cache, clear_series_mru, or the series lookup of
\* probe_media
LockCritical(t) ==
    LET tk == tasks[t]
        sr == tk.series_id
        ep == tk.episode_id
        known == sr \in DOMAIN seriesCache
        sd == seriesCache[sr]
        exact == known /\ ep # NoEpisode /\ ep \in DOMAIN sd.episodes
        exact_fresh == exact /\ now - sd.episodes[ep].time < SERIES_PROBE_CACHE_TTL_SEC
        mru_hit == /\ known /\ ~exact
                   /\ sd.mru # NoEpisode /\ sd.mru \in DOMAIN sd.episodes
                   /\ now - sd.episodes[sd.mru].time < SERIES_PROBE_CACHE_TTL_SEC
        save_mru == exact_fresh /\ sd.mru # ep
        out(save) == ExitWith(t, save)
    IN  /\ tk.pc = "crit" /\ probeLock = t
        /\ CASE tk.op = "clear_all_probe_cache" ->
                  /\ probeCache' = EmptyFn
                  /\ seriesCache' = EmptyFn
                  /\ probeLock' = out(TRUE).probeLock
                  /\ tasks' = [tasks EXCEPT ![t].pc = out(TRUE).pc]
             [] tk.op = "invalidate_series_probe_cache" ->
                  /\ seriesCache' =
                        IF ~known THEN seriesCache
                        ELSE IF ep = NoEpisode THEN RemoveKey(seriesCache, sr)
                        ELSE [seriesCache EXCEPT ![sr].episodes = RemoveKey(@, ep)]
                  /\ probeLock' = out(known).probeLock
                  /\ tasks' = [tasks EXCEPT ![t].pc = out(known).pc]
                  /\ UNCHANGED probeCache
             [] tk.op = "clear_series_mru" ->
                  /\ seriesCache' = IF known
                                    THEN [seriesCache EXCEPT ![sr].mru = NoEpisode]
                                    ELSE seriesCache
                  /\ probeLock' = out(known).probeLock
                  /\ tasks' = [tasks EXCEPT ![t].pc = out(known).pc]
                  /\ UNCHANGED probeCache
             [] tk.op = "probe_media" ->
                  /\ seriesCache' = IF save_mru
                                    THEN [seriesCache EXCEPT ![sr].mru = ep]
                                    ELSE seriesCache
                  /\ probeLock' = out(save_mru).probeLock
                  /\ tasks' = [tasks EXCEPT ![t].pc =
                                  IF save_mru \/ exact_fresh \/ mru_hit
                                  THEN out(save_mru).pc ELSE "url_lock"]
                  /\ UNCHANGED probeCache
        /\ last' = [op |-> "probe_lock", thread |-> t]
        /\ UNCHANGED <<regVars, diskVars, now, settings, seriesFile, nextSid, up>>

\* probe_media: the URL cache lookup; on a miss ffprobe runs next
LockUrlLookup(t) ==
    LET tk == tasks[t]
        hit == /\ "ep1" \in DOMAIN probeCache
               /\ now - probeCache["ep1"].time < PROBE_CACHE_TTL_SEC
    IN  /\ tk.pc = "url_crit" /\ probeLock = t
        /\ probeLock' = NoThread
        /\ tasks' = [tasks EXCEPT ![t].pc = IF hit THEN "idle" ELSE "ffprobe"]
        /\ last' = [op |-> "probe_lock", thread |-> t]
        /\ UNCHANGED <<regVars, diskVars, now, settings, probeCache, seriesCache,
                       seriesFile, nextSid, up>>

\* probe_media: ffprobe, run without the lock; nothing is cached when it
\* fails or reports no height
LockFFProbe(t) ==
    /\ tasks[t].pc = "ffprobe"
    /\ tasks' = [tasks EXCEPT ![t].pc = IF tasks[t].ff <= 0 THEN "idle" ELSE "write_lock"]
    /\ last' = [op |-> "probe_lock", thread |-> t]
    /\ UNCHANGED <<regVars, diskVars, now, settings, probeVars, nextSid, up>>

\* probe_media: the cache write
LockCacheWrite(t) ==
    LET tk == tasks[t]
        sr == tk.series_id
        eid == tk.episode_id
        entry == [time |-> now, height |-> tk.ff]
        old == IF sr \in DOMAIN seriesCache THEN seriesCache[sr]
               ELSE [mru |-> NoEpisode, episodes |-> EmptyFn]
        new == [mru |-> eid, episodes |-> Put(old.episodes, eid, entry)]
        out == ExitWith(t, sr # NoSeries)
    IN  /\ tk.pc = "write_crit" /\ probeLock = t
        /\ probeCache' = Put(probeCache, "ep1", entry)
        /\ seriesCache' = IF sr = NoSeries THEN seriesCache ELSE Put(seriesCache, sr, new)
        /\ probeLock' = out.probeLock
        /\ tasks' = [tasks EXCEPT ![t].pc = out.pc]
        /\ last' = [op |-> "probe_lock", thread |-> t]
        /\ UNCHANGED <<regVars, diskVars, now, settings, seriesFile, nextSid, up>>

\* _save_series_probe_cache: the data to write is collected under the lock
LockSaveCollect(t) ==
    /\ tasks[t].pc = "save_crit" /\ probeLock = t
    /\ probeLock' = NoThread
    /\ tasks' = [tasks EXCEPT ![t].pc = "save_write",
                              ![t].data = SaveSeries(Probe).seriesFile]
    /\ last' = [op |-> "probe_lock", thread |-> t]
    /\ UNCHANGED <<regVars, diskVars, now, settings, probeCache, seriesCache, seriesFile,
                   nextSid, up>>

\* _save_series_probe_cache: the file is written after the lock is released
LockSaveWrite(t) ==
    /\ tasks[t].pc = "save_write"
    /\ seriesFile' = tasks[t].data
    /\ tasks' = [tasks EXCEPT ![t] = LockTask]
    /\ last' = [op |-> "probe_lock", thread |-> t]
    /\ UNCHANGED <<regVars, diskVars, now, settings, probeCache, seriesCache, probeLock,
                   nextSid, up>>

\* what a thread does by itself once it holds or needs no lock
LockRun(t) ==
    \/ LockCritical(t)
    \/ LockUrlLookup(t)
    \/ LockFFProbe(t)
    \/ LockCacheWrite(t)
    \/ LockSaveCollect(t)
    \/ LockSaveWrite(t)

NextProbeLock ==
    \/ \E t \in TaskIds, ff \in {NoMedia, 720} : LockCall(t, "probe_media", 1, 1, ff)
    \/ \E t \in TaskIds, op \in LockOps \ {"probe_media"}, ep \in LockEpisodes :
          LockCall(t, op, 1, ep, NoMedia)
    \/ \E t \in TaskIds : LockAcquire(t)
    \/ \E t \in TaskIds : LockRun(t)

\* A running thread goes on (weak fairness); a thread waiting for the lock
\* gets it if the lock is free again and again (strong fairness): a release
\* wakes a waiter, and a thread that took the lock leaves its section in
\* finitely many steps.
SpecProbeLock ==
    /\ InitProbeLock /\ [][NextProbeLock]_vars
    /\ \A t \in TaskIds : WF_vars(LockRun(t)) /\ SF_vars(LockAcquire(t))

\* a thread waits for the lock
Waiting(t) == tasks[t].pc \in LockWaits
\* a thread is in a section under the lock
InSection(t) == tasks[t].pc \in {"crit", "url_crit", "write_crit", "save_crit"}

CommandDurations == {6, 12}

\* resume_transcode builds its command for the registered URL; a planner
\* error leaves it without one
ResumePlanCall(url, media, hls_duration) ==
    /\ LET plan == build_hls_ffmpeg_cmd(url, TranscodeHw(settings), TRUE,
                                        MediaInfoOf(url, media), MaxResolution(settings),
                                        "none", VaapiDevice(settings))
       IN  last' = [op |-> "resume_command", url |-> url, raised |-> plan.raised,
                    cmd |-> IF plan.raised THEN <<>>
                            ELSE ResumeCommand(url, settings, media, hls_duration,
                                               SegmentNum(hls_duration))]
    /\ UNCHANGED <<regVars, diskVars, now, settings, probeVars, tasks, nextSid, up>>

NextCommands ==
    \/ \E media_info \in SeekPlanMedia, is_vod \in BOOLEAN,
          deinterlace_fallback \in {"none", "true", "false"} :
          PlanCall(media_info, is_vod, deinterlace_fallback)
    \/ \E url \in {"movie1", "ep1"}, media \in {NoMedia, 720, 1080},
          hls_duration \in CommandDurations : ResumePlanCall(url, media, hls_duration)
    \/ \E media_info \in SeekPlanMedia, seek_time \in SeekPlanTimes :
          SeekPlanCall(media_info, seek_time)

SpecCommands == InitPlan /\ [][NextCommands]_vars

\* -hwaccel and the other flags that set the hardware up
HwInitFlags == {"-hwaccel", "-hwaccel_output_format", "-hwaccel_device",
                "-extra_hw_frames", "-vaapi_device", "-init_hw_device",
                "-filter_hw_device"}
CodecFlags == {"-vf", "-c:v", "-c:a"}
CommandOps == {"build_hls_ffmpeg_cmd", "resume_command", "seek_command"}
Holds(cmd, flags) == {i \in 1..Len(cmd) : cmd[i] \in flags}

\* C36: in every argument list of build_hls_ffmpeg_cmd, and in the lists
\* made from it for a resume and for a seek, every hardware-initialisation
\* flag stands before '-i', and '-vf', '-c:v' and '-c:a' stand after it.
C36_FlagsAroundInput ==
    (last.op \in CommandOps /\ ~last.raised) =>
        /\ Cardinality(Holds(last.cmd, {"-i"})) = 1
        /\ \A k \in Holds(last.cmd, HwInitFlags) : k < InputAt(last.cmd)
        /\ \A k \in Holds(last.cmd, CodecFlags) : k > InputAt(last.cmd)
        /\ Holds(last.cmd, {"-c:v"}) # {} /\ Holds(last.cmd, {"-c:a"}) # {}

\* a seek command that sets hardware up and filters
C36_Witness ==
    /\ last.op = "seek_command" /\ ~last.raised
    /\ Holds(last.cmd, {"-hwaccel"}) # {}
    /\ Holds(last.cmd, {"-vf"}) # {}
    /\ Holds(last.cmd, {"-output_ts_offset"}) # {}

(***************************************************************************)
(* SpecFilters: the filter chain of _build_video_args for every hardware    *)
(* policy and decode path, with and without deinterlacing, HDR and          *)
(* libplacebo.  Only the NVENC, VAAPI and QSV encoders have a hardware      *)
(* decode pipeline (use_hw_pipeline in build_hls_ffmpeg_cmd).               *)
(***************************************************************************)
FilterCall(deinterlace, use_hw_pipeline, is_hdr, has_libplacebo) ==
    /\ use_hw_pipeline => parse_hw(TranscodeHw(settings)).enc \in {"nvenc", "vaapi", "qsv"}
    /\ last' = [op |-> "filters", hw |-> TranscodeHw(settings),
                deinterlace |-> deinterlace, use_hw_pipeline |-> use_hw_pipeline,
                is_hdr |-> is_hdr,
                chain |-> FilterChain(TranscodeHw(settings), deinterlace, use_hw_pipeline,
                                      MaxResolution(settings), is_hdr, has_libplacebo)]
    /\ UNCHANGED <<regVars, diskVars, now, settings, probeVars, tasks, nextSid, up>>

NextFilters ==
    \E deinterlace \in BOOLEAN, use_hw_pipeline \in BOOLEAN, is_hdr \in BOOLEAN,
       has_libplacebo \in BOOLEAN :
        FilterCall(deinterlace, use_hw_pipeline, is_hdr, has_libplacebo)

SpecFilters == InitPlan /\ [][NextFilters]_vars

\* the filters that deinterlace, and the filters that map HDR tones; the
\* combined vpp_qsv filter does both
VppBoth == "vpp_qsv=deinterlace=2:tonemap=1:format=nv12"
DeintFilters == {"yadif=0", "yadif_cuda=0", "deinterlace_vaapi", "vpp_qsv=deinterlace=2",
                 VppBoth}
TonemapFilters == {Libplacebo, "tonemap=hable:desat=0", TonemapVaapi,
                   "vpp_qsv=tonemap=1:format=nv12", VppBoth}
BothRequired == last.op = "filters" /\ last.deinterlace /\ last.is_hdr
DeintAt == {i \in 1..Len(last.chain) : last.chain[i] \in DeintFilters}
TonemapAt == {j \in 1..Len(last.chain) : last.chain[j] \in TonemapFilters}

\* C37: for every hardware policy and decode path, when deinterlacing and
\* HDR tone-mapping are both required, the deinterlace filter stands before
\* the tone-mapping filter in the filter chain.
C37_DeintBeforeTonemap ==
    BothRequired =>
        /\ DeintAt # {} /\ TonemapAt # {}
        /\ \A i \in DeintAt, j \in TonemapAt : i < j

\* C37 as the planner has it: when both are required the chain deinterlaces
\* and maps tones, and no tone-mapping filter stands before a deinterlacing
\* one; the two are separate filters, deinterlacer first, except under QSV,
\* where one vpp_qsv filter does both.
C37_DeintNotAfterTonemap ==
    BothRequired =>
        /\ DeintAt # {} /\ TonemapAt # {}
        /\ \A i \in DeintAt, j \in TonemapAt :
              /\ i <= j
              /\ i = j <=> parse_hw(last.hw).enc = "qsv"
        /\ parse_hw(last.hw).enc = "qsv" => \E k \in 1..Len(last.chain) : last.chain[k] = VppBoth

\* both required under QSV with software decode: one filter after the upload
C37_Witness ==
    /\ BothRequired
    /\ last.hw = "qsv" /\ ~last.use_hw_pipeline
    /\ DeintAt = {3} /\ TonemapAt = {3}

(***************************************************************************)
(* SpecAuth: the users of server_settings.json (auth.py).  The users dict   *)
(* is a sequence of [name, admin] in insertion order; the password hash is  *)
(* left out.  Any of three names is created, deleted, promoted or demoted.  *)
(***************************************************************************)
Usernames == {"alice", "bob", "carol"}

UserAt(users, username) == CHOOSE i \in 1..Len(users) : users[i].name = username
HasUser(users, username) == \E i \in 1..Len(users) : users[i].name = username

\* users[username] = {...}: a new key goes last, a known key keeps its place
SetUser(users, username, admin) ==
    IF HasUser(users, username)
    THEN [users EXCEPT ![UserAt(users, username)].admin = admin]
    ELSE Append(users, [name |-> username, admin |-> admin])

\* create_user: the first user is always admin
create_user(users, username, admin) ==
    SetUser(users, username, IF Len(users) = 0 THEN TRUE ELSE admin)

\* _ensure_one_admin: promotes the first user when nobody is admin
ensure_one_admin(users) ==
    IF users = <<>> \/ \E i \in 1..Len(users) : users[i].admin
    THEN users
    ELSE [users EXCEPT ![1].admin = TRUE]

\* delete_user: [ok, users]
delete_user(users, username) ==
    IF ~HasUser(users, username) THEN [ok |-> FALSE, users |-> users]
    ELSE [ok |-> TRUE,
          users |-> ensure_one_admin(
              SelectSeq(users, LAMBDA u : u.name # username))]

\* set_admin: [ok, users]
set_admin(users, username, admin) ==
    IF ~HasUser(users, username) THEN [ok |-> FALSE, users |-> users]
    ELSE [ok |-> TRUE, users |-> ensure_one_admin(SetUser(users, username, admin))]

InitAuth ==
    /\ InitCommon
    /\ settings = [vod_transcode_cache_mins |-> 1, live_transcode_cache_secs |-> 0,
                   do_probe |-> TRUE, user_max |-> 0, source_max |-> 0,
                   users |-> <<>>]

CreateUser(username, admin) ==
    /\ settings' = [settings EXCEPT !.users = create_user(@, username, admin)]
    /\ last' = [op |-> "create_user", username |-> username, admin |-> admin,
                known |-> HasUser(settings.users, username)]
    /\ UNCHANGED <<regVars, diskVars, now, probeVars, tasks, nextSid, up>>

DeleteUser(username) ==
    /\ settings' = [settings EXCEPT !.users = delete_user(@, username).users]
    /\ last' = [op |-> "delete_user", username |-> username,
                ok |-> delete_user(settings.users, username).ok]
    /\ UNCHANGED <<regVars, diskVars, now, probeVars, tasks, nextSid, up>>

SetAdmin(username, admin) ==
    /\ settings' = [settings EXCEPT !.users = set_admin(@, username, admin).users]
    /\ last' = [op |-> "set_admin", username |-> username, admin |-> admin,
                ok |-> set_admin(settings.users, username, admin).ok]
    /\ UNCHANGED <<regVars, diskVars, now, probeVars, tasks, nextSid, up>>

NextAuth ==
    \/ \E username \in Usernames, admin \in BOOLEAN : CreateUser(username, admin)
    \/ \E username \in Usernames : DeleteUser(username)
    \/ \E username \in Usernames, admin \in BOOLEAN : SetAdmin(username, admin)

SpecAuth == InitAuth /\ [][NextAuth]_vars

\* C38: after any sequence of create_user, delete_user and set_admin calls,
\* if at least one user exists then at least one user is admin.
C38_SomeAdmin ==
    ("users" \in DOMAIN settings /\ settings.users # <<>>) =>
        \E i \in 1..Len(settings.users) : settings.users[i].admin
====
